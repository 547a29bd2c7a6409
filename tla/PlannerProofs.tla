----------------------------- MODULE PlannerProofs -----------------------------
(***************************************************************************)
(* The trip planner and the concierge for every set of prompts, budgets,    *)
(* skeletons, search results and conversations: an item of a plan is live    *)
(* exactly if its own search has priced it, a plan is confirmed as it was    *)
(* shown, and what the concierge replies agrees with what it shows, has      *)
(* told its model and has booked.  Lists are followed by the ranks of their  *)
(* indices and sums by the facts of SetFacts.                                *)
(***************************************************************************)
EXTENDS Concierge, SetFacts, SequenceTheorems

-----------------------------------------------------------------------------
(* Ranks *)

\* below[i] is what comes before i in a total order of S.
InOrder(S, below) ==
    /\ \A i \in S : below[i] \subseteq S /\ i \notin below[i]
    /\ \A i, j \in S : i # j => i \in below[j] \/ j \in below[i]
    /\ \A i, j \in S : i \in below[j] => below[i] \subseteq below[j]

\* In a finite total order, given by what is below each element, every rank is taken.
LEMMA RankTaken ==
    ASSUME NEW S, IsFiniteSet(S), NEW below, InOrder(S, below)
    PROVE  \A n \in 1 .. Cardinality(S) : \E i \in S : Cardinality(below[i]) = n - 1
<1> SUFFICES ASSUME NEW m \in 1 .. Cardinality(S) PROVE \E i \in S : Cardinality(below[i]) = m - 1
  OBVIOUS
<1> USE DEF InOrder
<1> DEFINE c == Cardinality(S)
           T == 0 .. c - 1
           f == [i \in S |-> Cardinality(below[i])]
<1>1. c \in Nat
  BY FS_CardinalityType
<1>2. IsFiniteSet(T) /\ Cardinality(T) = c
  <2> DEFINE b == c - 1
  <2>1. b \in Int /\ 0 \in Int /\ b + 1 = c /\ b >= -1
    BY <1>1
  <2>2. T = 0 .. b
    OBVIOUS
  <2> HIDE DEF b, T
  <2>3. IsFiniteSet(0 .. b) /\ Cardinality(0 .. b) = IF 0 > b THEN 0 ELSE b - 0 + 1
    BY <2>1, FS_Interval
  <2> QED
    BY <2>1, <2>2, <2>3
<1>3. \A i \in S : IsFiniteSet(below[i]) /\ f[i] \in Nat /\ f[i] = Cardinality(below[i])
  BY FS_Subset, FS_CardinalityType
<1>4. \A i \in S : f[i] \in T
  <2> SUFFICES ASSUME NEW i \in S PROVE f[i] \in T
    OBVIOUS
  <2>1. Cardinality(S \ {i}) = c - 1 /\ IsFiniteSet(S \ {i})
    BY FS_RemoveElement
  <2>2. below[i] \in SUBSET (S \ {i})
    OBVIOUS
  <2>3. Cardinality(below[i]) <= c - 1
    BY <2>1, <2>2, FS_Subset
  <2> QED
    BY <1>1, <1>3, <2>3
<1>5. ASSUME NEW i \in S, NEW j \in S, i \in below[j] PROVE f[i] < f[j]
  <2>1. below[i] \in SUBSET (below[j] \ {i})
    BY <1>5
  <2>2. IsFiniteSet(below[j] \ {i}) /\ Cardinality(below[j] \ {i}) = Cardinality(below[j]) - 1
    BY <1>3, <1>5, FS_RemoveElement
  <2>3. Cardinality(below[i]) <= Cardinality(below[j]) - 1
    BY <2>1, <2>2, FS_Subset
  <2> QED
    BY <1>3, <2>3
<1> HIDE DEF f
<1>6. \A i, j \in S : f[i] = f[j] => i = j
  BY <1>3, <1>5
<1>7. f \in Injection(S, T)
  <2>1. f \in [S -> T]
    BY <1>4 DEF f
  <2> QED
    BY <1>6, <2>1 DEF Injection, IsInjective
<1>8. f \in Surjection(S, T)
  BY <1>2, <1>7, FS_Injection
<1>9. m - 1 \in T
  BY <1>1
<1> HIDE DEF T
<1>10. \E i \in S : f[i] = m - 1
  BY <1>8, <1>9 DEF Surjection
<1> QED
  BY <1>3, <1>10

-----------------------------------------------------------------------------
(* Lists *)

\* What is kept of a list is drawn from it, at as many indices as there are.
LEMMA OnlyOf ==
    ASSUME NEW list, NEW S, S \subseteq Nat, IsFiniteSet(S)
    PROVE  \E p \in [1 .. Cardinality(S) -> S] :
               Only(list, S) = [n \in 1 .. Cardinality(S) |-> list[p[n]]]
<1> DEFINE c == Cardinality(S)
           below == [i \in S |-> {j \in S : j < i}]
           p == [n \in 1 .. c |-> CHOOSE i \in S : Cardinality({j \in S : j < i}) = n - 1]
<1>1. Only(list, S) = [n \in 1 .. c |-> list[p[n]]]
  BY DEF Only, Arranged, Nth
<1>2. c \in Nat
  BY FS_CardinalityType
<1>3. ASSUME NEW n \in 1 .. c PROVE \E i \in S : Cardinality({j \in S : j < i}) = n - 1
  <2>1. \A i \in S : below[i] \subseteq S /\ below[i] = {j \in S : j < i}
    OBVIOUS
  <2>2. \A i, j \in S : j \in below[i] <=> j < i
    OBVIOUS
  <2> HIDE DEF below
  <2>3. \A i \in S : i \in Nat
    OBVIOUS
  <2>4. \A i \in S : below[i] \subseteq S /\ i \notin below[i]
    BY <2>1, <2>2, <2>3
  <2>5. \A i, j \in S : i # j => i \in below[j] \/ j \in below[i]
    BY <2>2, <2>3
  <2>6. ASSUME NEW i \in S, NEW j \in S, i \in below[j] PROVE below[i] \subseteq below[j]
    <3> SUFFICES ASSUME NEW k \in below[i] PROVE k \in below[j]
      OBVIOUS
    <3>1. k \in S
      BY <2>1
    <3>2. k < i /\ i < j
      BY <2>2, <2>6, <3>1
    <3>3. k < j
      BY <2>3, <3>1, <3>2
    <3> QED
      BY <2>2, <3>1, <3>3
  <2>9. \A i, j \in S : i \in below[j] => below[i] \subseteq below[j]
    BY <2>6
  <2>10. InOrder(S, below)
    BY <2>4, <2>5, <2>9 DEF InOrder
  <2>8. \A m \in 1 .. Cardinality(S) : \E i \in S : Cardinality(below[i]) = m - 1
    BY <2>10, RankTaken
  <2> QED
    BY <2>1, <2>8
<1>4. p \in [1 .. c -> S]
  <2> SUFFICES ASSUME NEW n \in 1 .. c PROVE p[n] \in S
    OBVIOUS
  <2>1. (CHOOSE i \in S : Cardinality({j \in S : j < i}) = n - 1) \in S
    BY <1>3
  <2> QED
    BY <2>1
<1> QED
  <2> HIDE DEF p
  <2> QED
    BY <1>1, <1>4

\* A list in the sense of the model: a function on 1 .. n.
IsList(s) == \E n \in Nat : DOMAIN s = 1 .. n /\ s = [i \in 1 .. n |-> s[i]]

\* What is on such a list makes it a sequence.
LEMMA ListIsSeq ==
    ASSUME NEW s, IsList(s), NEW X, \A i \in DOMAIN s : s[i] \in X
    PROVE  s \in Seq(X)
<1>1. PICK n \in Nat : DOMAIN s = 1 .. n /\ s = [i \in 1 .. n |-> s[i]]
  BY DEF IsList
<1>2. s \in [1 .. n -> X]
  BY <1>1
<1> QED
  BY <1>2, SeqDef

\* The length of a list, and its elements as a set.
LEMMA ListLen ==
    ASSUME NEW s, IsList(s)
    PROVE  /\ Len(s) \in Nat /\ DOMAIN s = 1 .. Len(s)
           /\ s \in Seq(ToSet(s))
           /\ s = <<>> <=> Len(s) = 0
<1>1. \A i \in DOMAIN s : s[i] \in ToSet(s)
  BY DEF ToSet
<1> HIDE DEF ToSet
<1>2. s \in Seq(ToSet(s))
  BY <1>1, ListIsSeq
<1>3. Len(s) \in Nat /\ DOMAIN s = 1 .. Len(s)
  BY <1>2, LenProperties
<1>4. s = <<>> <=> Len(s) = 0
  BY <1>2, EmptySeq
<1> QED
  BY <1>2, <1>3, <1>4

\* A sequence is a list.
LEMMA SeqIsList == ASSUME NEW X, NEW s \in Seq(X) PROVE IsList(s)
<1>1. Len(s) \in Nat /\ s \in [1 .. Len(s) -> X] /\ DOMAIN s = 1 .. Len(s)
  BY LenProperties
<1> QED
  BY <1>1 DEF IsList

\* An arrangement is a list, as long as its set of indices.
LEMMA ArrangedOnly ==
    ASSUME NEW list, NEW S, IsFiniteSet(S)
    PROVE  IsList(Only(list, S)) /\ Len(Only(list, S)) = Cardinality(S)
<1> DEFINE c == Cardinality(S)
           e == [n \in 1 .. c |-> list[Nth(S, <, n)]]
<1>1. c \in Nat
  BY FS_CardinalityType
<1>2. Only(list, S) = e
  BY DEF Only, Arranged
<1>3. DOMAIN e = 1 .. c /\ e = [i \in 1 .. c |-> e[i]]
  OBVIOUS
<1>4. IsList(e)
  BY <1>1, <1>3 DEF IsList
<1>5. Len(e) \in Nat /\ 1 .. c = 1 .. Len(e)
  <2> HIDE DEF e
  <2> QED
    BY <1>3, <1>4, ListLen
<1>6. Len(e) = c
  <2> HIDE DEF c, e
  <2> QED
    BY <1>1, <1>5
<1> QED
  BY <1>2, <1>4, <1>6

\* What holds for the elements of a list holds for those that are kept.
LEMMA OnlyKind ==
    ASSUME NEW X, NEW list \in Seq(X), NEW S, S \subseteq DOMAIN list,
           NEW Y, \A i \in S : list[i] \in Y
    PROVE  Only(list, S) \in Seq(Y)
<1>1. Len(list) \in Nat /\ DOMAIN list = 1 .. Len(list) /\ \A i \in DOMAIN list : list[i] \in X
  BY LenProperties, ElementOfSeq
<1>2. IsFiniteSet(S) /\ S \subseteq Nat
  <2>1. IsFiniteSet(1 .. Len(list)) /\ 1 .. Len(list) \subseteq Nat
    BY <1>1, FS_Interval
  <2> QED
    BY <1>1, <2>1, FS_Subset
<1>3. PICK p \in [1 .. Cardinality(S) -> S] :
               Only(list, S) = [n \in 1 .. Cardinality(S) |-> list[p[n]]]
  BY <1>2, OnlyOf
<1>4. \A n \in DOMAIN Only(list, S) : Only(list, S)[n] \in Y
  BY <1>3
<1>5. IsList(Only(list, S))
  BY <1>2, ArrangedOnly
<1> QED
  BY <1>4, <1>5, ListIsSeq

\* What is kept of a sequence is of its elements' kind.
LEMMA OnlySeq ==
    ASSUME NEW X, NEW list \in Seq(X), NEW S, S \subseteq DOMAIN list
    PROVE  Only(list, S) \in Seq(X)
<1>1. \A i \in S : list[i] \in X
  BY LenProperties, ElementOfSeq
<1> QED
  BY <1>1, OnlyKind

-----------------------------------------------------------------------------
(* What the searches may return *)

FlightOption == [price : Number, minutes : Number, stops : Int]
HotelOption == [price : Number, rating : Number]
RestaurantOption == [titled : BOOLEAN, rating : {None} \cup Nat, level : Nat]

Option(leg) == IF leg = "flight" THEN FlightOption
               ELSE IF leg = "hotel" THEN HotelOption ELSE RestaurantOption

\* FlightService._normalize returns options with a price that is a number or missing.
LEMMA FlightsSaid == FlightAnswers \subseteq Seq(FlightOption)
<1> SUFFICES ASSUME NEW raw \in Flights PROVE FlightOptions(raw) \in Seq(FlightOption)
  BY DEF FlightAnswers
<1> DEFINE X == [legs : Nat, price : Number, minutes : Number]
           S == {i \in DOMAIN raw : raw[i].legs > 0}
           f == Only(raw, S)
           o == [i \in DOMAIN f |-> [price |-> f[i].price, minutes |-> f[i].minutes,
                                     stops |-> f[i].legs - 1]]
<1>1. raw \in Seq(X)
  BY PlannerAssumption
<1>2. S \subseteq DOMAIN raw
  OBVIOUS
<1> HIDE DEF S
<1>3. f \in Seq(X)
  <2> HIDE DEF X
  <2> QED
    BY <1>1, <1>2, OnlySeq
<1> HIDE DEF f
<1>4. Len(f) \in Nat /\ DOMAIN f = 1 .. Len(f) /\ \A i \in 1 .. Len(f) : f[i] \in X
  <2> HIDE DEF X
  <2> QED
    BY <1>3, LenProperties, ElementOfSeq
<1>5. \A i \in 1 .. Len(f) : o[i] \in FlightOption
  BY <1>4 DEF FlightOption
<1>6. IsList(o)
  BY <1>4 DEF IsList
<1>7. o \in Seq(FlightOption)
  <2>1. DOMAIN o = 1 .. Len(f)
    BY <1>4
  <2> HIDE DEF o
  <2> QED
    BY <2>1, <1>5, <1>6, ListIsSeq
<1> QED
  BY <1>7 DEF FlightOptions, f, S

\* So does HotelSearchService._normalize, for any number of nights.
LEMMA HotelsSaid ==
    ASSUME NEW raw \in Hotels, NEW nights \in Int
    PROVE  HotelOptions(raw, nights) \in Seq(HotelOption)
<1> DEFINE X == [named : BOOLEAN, total : Number, night : Number, rating : Number]
           S == {i \in DOMAIN raw : raw[i].named}
           f == Only(raw, S)
           o == [i \in DOMAIN f |-> [price |-> HotelPrice(f[i], nights), rating |-> f[i].rating]]
<1>1. raw \in Seq(X)
  BY PlannerAssumption
<1>2. S \subseteq DOMAIN raw
  OBVIOUS
<1> HIDE DEF S
<1>3. f \in Seq(X)
  <2> HIDE DEF X
  <2> QED
    BY <1>1, <1>2, OnlySeq
<1> HIDE DEF f
<1>4. Len(f) \in Nat /\ DOMAIN f = 1 .. Len(f) /\ \A i \in 1 .. Len(f) : f[i] \in X
  <2> HIDE DEF X
  <2> QED
    BY <1>3, LenProperties, ElementOfSeq
<1>5. ASSUME NEW i \in 1 .. Len(f) PROVE o[i] \in HotelOption
  <2> DEFINE p == HotelPrice(f[i], nights)
             m == f[i].night * nights
  <2>1. f[i].night # None => f[i].night \in Int
    BY <1>4 DEF Number
  <2>2. f[i].night # None => m \in Int
    BY <2>1
  <2>3. p = IF f[i].total # None THEN f[i].total ELSE IF f[i].night # None THEN m ELSE None
    BY DEF HotelPrice
  <2> HIDE DEF m
  <2>4. p \in Number
    BY <1>4, <2>2, <2>3 DEF Number
  <2> HIDE DEF p
  <2>5. f[i].rating \in Number
    BY <1>4
  <2>6. o[i] = [price |-> p, rating |-> f[i].rating]
    BY <1>4 DEF p
  <2> QED
    BY <2>4, <2>5, <2>6 DEF HotelOption
<1>6. IsList(o)
  BY <1>4 DEF IsList
<1>7. o \in Seq(HotelOption)
  <2>1. DOMAIN o = 1 .. Len(f)
    BY <1>4
  <2> HIDE DEF o
  <2> QED
    BY <2>1, <1>5, <1>6, ListIsSeq
<1> QED
  BY <1>7 DEF HotelOptions, f, S

\* RestaurantService.search returns the entries it keeps.
LEMMA RestaurantsSaid == RestaurantAnswers \subseteq Seq(RestaurantOption)
<1> SUFFICES ASSUME NEW raw \in Restaurants PROVE RestaurantOptions(raw) \in Seq(RestaurantOption)
  BY DEF RestaurantAnswers
<1> DEFINE S == {i \in DOMAIN raw : raw[i].titled}
<1>1. raw \in Seq(RestaurantOption)
  BY PlannerAssumption DEF RestaurantOption
<1>2. S \subseteq DOMAIN raw
  OBVIOUS
<1> HIDE DEF S
<1>3. Only(raw, S) \in Seq(RestaurantOption)
  BY <1>1, <1>2, OnlySeq
<1> QED
  BY <1>3 DEF RestaurantOptions, S

\* Whatever a search returns are options of its leg.
LEMMA SaidTyped ==
    ASSUME NEW l \in Legs, NEW nights \in Int
    PROVE  Said(l, nights) \subseteq Seq(Option(l))
<1>1. CASE l = "flight"
  BY <1>1, FlightsSaid DEF Said, Option
<1>2. CASE l = "hotel"
  BY <1>2, HotelsSaid DEF Said, Option
<1>3. CASE l = "restaurant"
  BY <1>3, RestaurantsSaid DEF Said, Option
<1> QED
  BY <1>1, <1>2, <1>3 DEF Legs

(* What a plan is composed of *)

TripItem == [kind : {"restaurant", "activity", "transfer"}, day : Int, free : BOOLEAN]

TripTyped ==
    trip \in [flight : BOOLEAN, hotel : BOOLEAN, nights : 1 .. 30, items : Seq(TripItem)]

\* A search that was not started has no result, and what others return is of their leg.
SaidSound ==
    /\ tasks \subseteq Legs
    /\ said = [l \in Legs |-> said[l]]
    /\ \A l \in Legs : said[l] \in {Asked, Failed} \cup Seq(Option(l))
    /\ \A l \in Legs : l \notin tasks => said[l] = Failed

PlanItem == [kind : {"flight", "hotel", "restaurant", "activity", "transfer"}, day : Int,
             amount : Nat, live : BOOLEAN]

\* The conclusion of LegsDegradeAlone, of one item.
LegSound(item) ==
    LET quoted == IF item.kind \in Legs THEN Quoted(item.kind) ELSE {}
    IN  /\ item.live <=> quoted # {}
        /\ item.live => item.amount \in quoted

\* A leg has found what its search has returned, and nothing when that has failed.
LEMMA FoundIs ==
    ASSUME SaidSound, NEW l \in Legs, said[l] # Asked
    PROVE  /\ Found(l) \in Seq(Option(l))
           /\ said[l] = Failed => Found(l) = <<>>
           /\ said[l] # Failed => Found(l) = said[l]
<1>1. ResultOf(l) = said[l]
  BY DEF SaidSound, ResultOf
<1>2. <<>> \in Seq(Option(l))
  BY EmptySeq
<1>3. said[l] = Failed \/ said[l] \in Seq(Option(l))
  BY DEF SaidSound
<1> QED
  BY <1>1, <1>2, <1>3 DEF Found

\* The options that are priced, of a list whose prices are numbers or missing.
LEMMA PricedIs ==
    ASSUME NEW X, NEW found \in Seq(X), \A o \in X : o.price \in Number
    PROVE  /\ Priced(found) \subseteq DOMAIN found /\ Priced(found) \subseteq Nat
           /\ IsFiniteSet(Priced(found))
           /\ \A i \in Priced(found) : found[i].price \in Nat /\ found[i].price > 0 /\ found[i].price # None
<1>1. Len(found) \in Nat /\ DOMAIN found = 1 .. Len(found) /\ \A i \in DOMAIN found : found[i] \in X
  BY LenProperties, ElementOfSeq
<1>2. IsFiniteSet(1 .. Len(found))
  BY <1>1, FS_Interval
<1>3. \A i \in Priced(found) :
          i \in DOMAIN found /\ found[i].price \in Number /\ found[i].price # None /\ found[i].price > 0
  BY <1>1 DEF Priced
<1>4. Priced(found) \subseteq DOMAIN found
  BY DEF Priced
<1>5. IsFiniteSet(Priced(found))
  BY <1>1, <1>2, <1>4, FS_Subset
<1> QED
  BY <1>1, <1>3, <1>4, <1>5 DEF Number

\* What is quoted is what is priced.
LEMMA QuotedPriced ==
    ASSUME SaidSound, NEW l \in {"flight", "hotel"}, said[l] # Asked
    PROVE  /\ Quoted(l) = {} <=> Priced(Found(l)) = {}
           /\ \A i \in Priced(Found(l)) : 100 * Found(l)[i].price \in Quoted(l)
<1> DEFINE found == Found(l)
           S == {o \in ToSet(said[l]) : o.price # None /\ o.price > 0}
<1>1. CASE said[l] = Failed
  <2>1. found = <<>>
    BY <1>1, FoundIs DEF Legs
  <2>2. Priced(found) = {}
    BY <2>1 DEF Priced
  <2>3. Quoted(l) = {}
    BY <1>1 DEF Quoted
  <2> QED
    BY <2>2, <2>3
<1>2. CASE said[l] # Failed
  <2>1. found = said[l]
    BY <1>2, FoundIs DEF Legs
  <2>2. Quoted(l) = {100 * o.price : o \in S}
    BY <1>2 DEF Quoted
  <2> HIDE DEF found
  <2>3. \A i \in Priced(found) : found[i] \in S
    BY <2>1 DEF Priced, ToSet
  <2>4. \A o \in S : \E i \in Priced(found) : o = found[i]
    BY <2>1 DEF Priced, ToSet
  <2> HIDE DEF S
  <2>5. \A i \in Priced(found) : 100 * found[i].price \in Quoted(l)
    BY <2>2, <2>3
  <2>6. Quoted(l) # {} => Priced(found) # {}
    BY <2>2, <2>4
  <2> QED
    BY <2>5, <2>6 DEF found
<1> QED
  BY <1>1, <1>2

\* The flight of a plan is the cheapest that its search has quoted, or an estimate.
LEMMA FlightSound ==
    ASSUME SaidSound, said["flight"] # Asked
    PROVE  FlightItem \in PlanItem /\ FlightItem.day = 0 /\ FlightItem.kind = "flight" /\ LegSound(FlightItem)
<1> DEFINE found == Found("flight")
           P == Priced(found)
           prices == {found[i].price : i \in P}
<1>1. found \in Seq(FlightOption)
  BY FoundIs DEF Legs, Option
<1>2. \A o \in FlightOption : o.price \in Number
  BY DEF FlightOption
<1> HIDE DEF found
<1>3. \A i \in P : found[i].price \in Nat /\ found[i].price > 0
  BY <1>1, <1>2, PricedIs
<1>4. /\ Quoted("flight") = {} <=> P = {}
      /\ \A i \in P : 100 * found[i].price \in Quoted("flight")
  BY QuotedPriced DEF found
<1> HIDE DEF P
<1>5. prices \subseteq Nat /\ (prices = {} <=> P = {})
  BY <1>3
<1>6. CASE P = {}
  <2>1. FlightItem = [kind |-> "flight", day |-> 0, amount |-> Estimate["flight"], live |-> FALSE]
    BY <1>5, <1>6 DEF FlightItem, Estimated, Item, found, P
  <2>2. Estimate["flight"] \in Nat
    BY PlannerAssumption
  <2> QED
    BY <1>4, <1>6, <2>1, <2>2 DEF PlanItem, LegSound, Legs
<1>7. CASE P # {}
  <2> DEFINE m == Min(prices)
             a == 100 * m
  <2>1. m \in prices
    <3> HIDE DEF prices
    <3> QED
      BY <1>5, <1>7, MinOf
  <2>2. PICK i \in P : m = found[i].price
    BY <2>1
  <2>3. a \in Quoted("flight")
    BY <1>4, <2>2
  <2>4. a \in Nat
    BY <1>3, <2>2
  <2>5. FlightItem = [kind |-> "flight", day |-> 0, amount |-> a, live |-> TRUE]
    BY <1>5, <1>7 DEF FlightItem, Item, found, P
  <2> HIDE DEF a
  <2> QED
    BY <2>3, <2>4, <2>5 DEF PlanItem, LegSound, Legs
<1> QED
  BY <1>6, <1>7

\* Of a finite non-empty set some element has the greatest value.
LEMMA GreatestValue ==
    ASSUME NEW S, IsFiniteSet(S), S # {}, NEW v, \A i \in S : v[i] \in Nat
    PROVE  \E i \in S : \A j \in S : v[j] <= v[i]
<1> DEFINE f == [i \in S |-> v[i]]
           V == {v[i] : i \in S}
<1>1. f \in Surjection(S, V)
  BY DEF Surjection
<1>2. IsFiniteSet(V)
  <2> HIDE DEF f, V
  <2> QED
    BY <1>1, FS_Surjection
<1>3. V \subseteq Nat /\ V # {}
  OBVIOUS
<1>4. PICK x \in V : \A y \in V : y <= x
  <2> HIDE DEF V
  <2> QED
    BY <1>2, <1>3, GreatestNat
<1>5. PICK i \in S : x = v[i]
  OBVIOUS
<1>6. \A j \in S : v[j] \in V
  OBVIOUS
<1> HIDE DEF V
<1>7. \A j \in S : v[j] <= v[i]
  BY <1>4, <1>5, <1>6
<1> QED
  BY <1>7

\* A restaurant is the best that its search has quoted, or an estimate.
LEMMA RestaurantSound ==
    ASSUME SaidSound, said["restaurant"] # Asked, NEW day \in Int
    PROVE  /\ RestaurantItem(day) \in PlanItem
           /\ RestaurantItem(day).day = day /\ RestaurantItem(day).kind = "restaurant"
           /\ LegSound(RestaurantItem(day))
<1> DEFINE found == Found("restaurant")
           D == DOMAIN found
           Rating(i) == IF found[i].rating = None THEN 0 ELSE found[i].rating
           v == [i \in D |-> Rating(i)]
           B == {i \in D : \A j \in D : Rating(j) <= Rating(i)}
           best == Min(B)
           Cost(o) == IF o.level = 0 THEN 12000 ELSE 6000 * o.level
<1>1. found \in Seq(RestaurantOption)
  BY FoundIs DEF Legs, Option
<1>2. /\ said["restaurant"] = Failed => found = <<>>
      /\ said["restaurant"] # Failed => found = said["restaurant"]
  BY FoundIs DEF Legs
<1>3. Quoted("restaurant") = IF said["restaurant"] = Failed THEN {}
                             ELSE {Cost(o) : o \in ToSet(said["restaurant"])}
  BY DEF Quoted
<1>4. RestaurantItem(day) =
          IF found = <<>> THEN Estimated("restaurant", day)
          ELSE Item("restaurant", day,
                    2 * (IF found[best].level = 0 THEN 6000 ELSE 3000 * found[best].level), TRUE)
  BY DEF RestaurantItem
<1> HIDE DEF found
<1>5. Len(found) \in Nat /\ D = 1 .. Len(found) /\ \A i \in D : found[i] \in RestaurantOption
  BY <1>1, LenProperties, ElementOfSeq
<1>6. found = <<>> <=> D = {}
  <2>1. found = <<>> <=> Len(found) = 0
    BY <1>1, EmptySeq
  <2> QED
    BY <2>1, <1>5
<1>7. CASE found = <<>>
  <2>1. Quoted("restaurant") = {}
    <3>1. D = {}
      BY <1>6, <1>7
    <3>2. said["restaurant"] # Failed => ToSet(said["restaurant"]) = {}
      BY <1>2, <3>1 DEF ToSet
    <3> QED
      BY <1>3, <3>2
  <2>2. RestaurantItem(day) = [kind |-> "restaurant", day |-> day,
                               amount |-> Estimate["restaurant"], live |-> FALSE]
    BY <1>4, <1>7 DEF Estimated, Item
  <2>3. Estimate["restaurant"] \in Nat
    BY PlannerAssumption
  <2> QED
    BY <2>1, <2>2, <2>3 DEF PlanItem, LegSound, Legs
<1>8. CASE found # <<>>
  <2>1. \A i \in D : v[i] \in Nat /\ v[i] = Rating(i)
    BY <1>5 DEF RestaurantOption
  <2>2. IsFiniteSet(D) /\ D # {} /\ D \subseteq Nat
    <3>1. 1 \in Int /\ Len(found) \in Int
      BY <1>5
    <3>2. IsFiniteSet(1 .. Len(found))
      BY <3>1, FS_Interval
    <3> QED
      BY <3>2, <1>5, <1>6, <1>8
  <2>3. PICK i \in D : \A j \in D : v[j] <= v[i]
    <3> HIDE DEF v, D
    <3> QED
      BY <2>1, <2>2, GreatestValue
  <2>4. i \in B
    BY <2>1, <2>3
  <2>5. B \subseteq Nat /\ B \subseteq D
    BY <2>2
  <2>6. best \in D
    <3> HIDE DEF B
    <3> QED
      BY <2>4, <2>5, MinOf
  <2> DEFINE level == found[best].level
             a == 2 * (IF level = 0 THEN 6000 ELSE 3000 * level)
  <2>7. level \in Nat
    BY <2>6, <1>5 DEF RestaurantOption
  <2>8. RestaurantItem(day) = [kind |-> "restaurant", day |-> day, amount |-> a, live |-> TRUE]
    BY <1>4, <1>8 DEF Item
  <2>9. a \in Nat /\ a = Cost(found[best])
    BY <2>7
  <2>10. said["restaurant"] # Failed
    BY <1>2, <1>8
  <2>11. found[best] \in ToSet(said["restaurant"])
    <3> HIDE DEF best
    <3> QED
      BY <1>2, <2>6, <2>10 DEF ToSet
  <2>12. Cost(found[best]) \in Quoted("restaurant")
    <3> HIDE DEF best
    <3> QED
      BY <1>3, <2>10, <2>11
  <2> HIDE DEF a
  <2> QED
    BY <2>8, <2>9, <2>12 DEF PlanItem, LegSound, Legs
<1> QED
  BY <1>7, <1>8

\* The median of the priced hotels is one of them.
LEMMA HotelSound ==
    ASSUME SaidSound, said["hotel"] # Asked, TripTyped
    PROVE  HotelItem \in PlanItem /\ HotelItem.day = 0 /\ HotelItem.kind = "hotel" /\ LegSound(HotelItem)
<1> DEFINE found == Found("hotel")
           P == Priced(found)
           c == Cardinality(P)
           below == [i \in P |-> {j \in P : Cheaper(j, i)}]
           p == [n \in 1 .. c |-> CHOOSE i \in P : Cardinality({j \in P : Cheaper(j, i)}) = n - 1]
           priced == Arranged(found, P, Cheaper)
           k == Len(priced) \div 2 + 1
<1>1. found \in Seq(HotelOption)
  BY FoundIs DEF Legs, Option
<1>2. \A o \in HotelOption : o.price \in Number
  BY DEF HotelOption
<1>3. /\ Quoted("hotel") = {} <=> P = {}
      /\ \A i \in P : 100 * found[i].price \in Quoted("hotel")
  BY QuotedPriced
<1>4. HotelItem = IF priced = <<>>
                  THEN Item("hotel", 0, Estimate["hotel"] * trip.nights, FALSE)
                  ELSE Item("hotel", 0, 100 * priced[k].price, TRUE)
  BY DEF HotelItem
<1>12. priced = [n \in 1 .. c |-> found[p[n]]]
  BY DEF Arranged, Nth
<1>13. \A i, j \in P : Cheaper(j, i) <=> \/ found[j].price < found[i].price
                                         \/ found[j].price = found[i].price /\ j < i
  BY DEF Cheaper
<1> HIDE DEF found, priced
<1>5. /\ P \subseteq Nat /\ IsFiniteSet(P)
      /\ \A i \in P : found[i].price \in Nat /\ found[i].price > 0
  BY <1>1, <1>2, PricedIs
<1> HIDE DEF P
<1>6. c \in Nat /\ (c = 0 <=> P = {})
  <2>1. c \in Nat
    BY <1>5, FS_CardinalityType
  <2>2. c = 0 <=> P = {}
    BY <1>5, FS_EmptySet
  <2> QED
    BY <2>1, <2>2
<1>7. InOrder(P, below)
  <2>1. \A i \in P : below[i] \subseteq P
    OBVIOUS
  <2>2. \A i, j \in P : j \in below[i] <=> \/ found[j].price < found[i].price
                                           \/ found[j].price = found[i].price /\ j < i
    BY <1>13
  <2> HIDE DEF below
  <2>3. \A i \in P : i \notin below[i]
    BY <2>2, <1>5
  <2>4. \A i, j \in P : i # j => i \in below[j] \/ j \in below[i]
    BY <2>2, <1>5
  <2>5. ASSUME NEW i \in P, NEW j \in P, i \in below[j] PROVE below[i] \subseteq below[j]
    <3> SUFFICES ASSUME NEW n \in below[i] PROVE n \in below[j]
      OBVIOUS
    <3>1. n \in P
      BY <2>1
    <3>2. /\ \/ found[n].price < found[i].price
             \/ found[n].price = found[i].price /\ n < i
          /\ \/ found[i].price < found[j].price
             \/ found[i].price = found[j].price /\ i < j
      BY <2>2, <2>5, <3>1
    <3>3. /\ found[n].price \in Nat /\ found[i].price \in Nat /\ found[j].price \in Nat
          /\ n \in Nat /\ i \in Nat /\ j \in Nat
      BY <1>5, <3>1
    <3>4. \/ found[n].price < found[j].price
          \/ found[n].price = found[j].price /\ n < j
      BY <3>2, <3>3
    <3> QED
      BY <2>2, <3>1, <3>4
  <2> QED
    BY <2>1, <2>3, <2>4, <2>5 DEF InOrder
<1>8. \A n \in 1 .. c : p[n] \in P
  <2> SUFFICES ASSUME NEW n \in 1 .. c PROVE p[n] \in P
    OBVIOUS
  <2>1. \A m \in 1 .. c : \E i \in P : Cardinality(below[i]) = m - 1
    <3> HIDE DEF below
    <3> QED
      BY <1>5, <1>7, RankTaken
  <2>2. PICK i \in P : Cardinality(below[i]) = n - 1
    <3> HIDE DEF below
    <3> QED
      BY <2>1
  <2>3. Cardinality({j \in P : Cheaper(j, i)}) = n - 1
    BY <2>2
  <2>4. (CHOOSE x \in P : Cardinality({j \in P : Cheaper(j, x)}) = n - 1) \in P
    BY <2>3
  <2> QED
    BY <2>4
<1> HIDE DEF p, below
<1>9. Len(priced) = c /\ (priced = <<>> <=> c = 0)
  <2>1. DOMAIN priced = 1 .. c /\ priced = [i \in 1 .. c |-> priced[i]]
    BY <1>12
  <2>2. IsList(priced)
    BY <1>6, <2>1 DEF IsList
  <2>3. Len(priced) \in Nat /\ 1 .. c = 1 .. Len(priced) /\ (priced = <<>> <=> Len(priced) = 0)
    <3> HIDE DEF priced, c
    <3> QED
      BY <2>1, <2>2, ListLen
  <2> QED
    <3> HIDE DEF priced, c
    <3> QED
      BY <1>6, <2>3
<1>10. CASE P = {}
  <2> DEFINE a == Estimate["hotel"] * trip.nights
  <2>1. HotelItem = [kind |-> "hotel", day |-> 0, amount |-> a, live |-> FALSE]
    <3> HIDE DEF priced, c
    <3> QED
      BY <1>4, <1>6, <1>9, <1>10 DEF Item
  <2>2. Estimate["hotel"] \in Nat /\ trip.nights \in Nat
    <3>1. Estimate["hotel"] \in Nat
      BY PlannerAssumption
    <3>2. trip.nights \in 1 .. 30
      BY DEF TripTyped
    <3> QED
      BY <3>1, <3>2
  <2>3. a \in Nat
    BY <2>2
  <2> HIDE DEF a
  <2> QED
    BY <1>3, <1>10, <2>1, <2>3 DEF PlanItem, LegSound, Legs
<1>11. CASE P # {}
  <2>1. k \in 1 .. c
    <3>1. c \in Nat /\ c >= 1 /\ k = c \div 2 + 1
      <4> HIDE DEF priced, c
      <4> QED
        BY <1>6, <1>9, <1>11
    <3> HIDE DEF k, c
    <3> QED
      BY <3>1
  <2> DEFINE i == p[k]
             a == 100 * found[i].price
  <2>2. priced[k] = found[i]
    <3> HIDE DEF k
    <3> QED
      BY <1>12, <2>1
  <2>3. i \in P
    <3> HIDE DEF k, c
    <3> QED
      BY <1>8, <2>1
  <2> HIDE DEF i
  <2>4. a \in Nat /\ a \in Quoted("hotel")
    BY <1>3, <1>5, <2>3
  <2>5. HotelItem = [kind |-> "hotel", day |-> 0, amount |-> a, live |-> TRUE]
    <3> HIDE DEF priced, c, k
    <3> QED
      BY <1>4, <1>6, <1>9, <1>11, <2>2 DEF Item
  <2> HIDE DEF a
  <2> QED
    BY <2>4, <2>5 DEF PlanItem, LegSound, Legs
<1> QED
  BY <1>10, <1>11

\* So is every item of a day, and activities and transfers are never live.
LEMMA DaySound ==
    ASSUME SaidSound, said["restaurant"] # Asked, NEW spec \in TripItem
    PROVE  DayItem(spec) \in PlanItem /\ DayItem(spec).day = spec.day
           /\ DayItem(spec).kind = spec.kind /\ LegSound(DayItem(spec))
<1>1. spec.day \in Int /\ spec.kind \in {"restaurant", "activity", "transfer"}
  BY DEF TripItem
<1>2. CASE spec.kind = "restaurant"
  BY <1>1, <1>2, RestaurantSound DEF DayItem
<1>3. CASE spec.kind # "restaurant"
  <2>1. Estimate[spec.kind] \in Nat
    BY <1>1, <1>3, PlannerAssumption
  <2>2. PICK a \in {0, Estimate[spec.kind]} :
            DayItem(spec) = [kind |-> spec.kind, day |-> spec.day, amount |-> a, live |-> FALSE]
    BY <1>3 DEF DayItem, Estimated, Item
  <2>3. a \in Nat
    BY <2>1
  <2>4. spec.kind \notin Legs
    BY <1>1, <1>3 DEF Legs
  <2>5. /\ DayItem(spec).kind = spec.kind /\ DayItem(spec).day = spec.day
        /\ DayItem(spec).live = FALSE
    BY <2>2
  <2>6. LegSound(DayItem(spec))
    BY <2>4, <2>5 DEF LegSound
  <2>7. DayItem(spec) \in PlanItem
    BY <1>1, <2>2, <2>3 DEF PlanItem
  <2> QED
    BY <2>5, <2>6, <2>7
<1> QED
  BY <1>2, <1>3

\* Every item of a plan is sound, whichever searches have failed, and those that are
\* not trip-wide have the day of their entry.
LEMMA ItemsSound ==
    ASSUME SaidSound, TripTyped, Ended
    PROVE  /\ Items \in Seq(PlanItem)
           /\ trip.flight \/ trip.hotel => Items # <<>>
           /\ \A n \in DOMAIN Items :
                 /\ LegSound(Items[n])
                 /\ \/ Items[n].kind \in {"flight", "hotel"} /\ Items[n].day = 0
                    \/ /\ Items[n].kind \notin {"flight", "hotel"}
                       /\ \E i \in DOMAIN trip.items : Items[n].day = trip.items[i].day
<1> DEFINE Good(item) ==
              /\ item \in PlanItem /\ LegSound(item)
              /\ \/ item.kind \in {"flight", "hotel"} /\ item.day = 0
                 \/ /\ item.kind \notin {"flight", "hotel"}
                    /\ \E i \in DOMAIN trip.items : item.day = trip.items[i].day
           G == {item \in PlanItem : Good(item)}
           f == IF trip.flight THEN <<FlightItem>> ELSE <<>>
           h == IF trip.hotel THEN <<HotelItem>> ELSE <<>>
           d == [i \in DOMAIN trip.items |-> DayItem(trip.items[i])]
<1>1. \A l \in Legs : said[l] # Asked
  BY DEF Ended
<1>2. trip.flight \in BOOLEAN /\ trip.hotel \in BOOLEAN /\ trip.items \in Seq(TripItem)
  BY DEF TripTyped
<1>3. /\ Len(trip.items) \in Nat /\ DOMAIN trip.items = 1 .. Len(trip.items)
      /\ \A i \in DOMAIN trip.items : trip.items[i] \in TripItem
  BY <1>2, LenProperties, ElementOfSeq
<1>4. f \in Seq(G)
  <2>1. Good(FlightItem)
    BY <1>1, FlightSound DEF Legs
  <2>2. FlightItem \in G
    BY <2>1
  <2> HIDE DEF G
  <2>3. <<>> \in Seq(G) /\ <<FlightItem>> \in Seq(G)
    BY <2>2
  <2> QED
    BY <1>2, <2>3
<1>5. h \in Seq(G)
  <2>1. Good(HotelItem)
    BY <1>1, HotelSound DEF Legs
  <2>2. HotelItem \in G
    BY <2>1
  <2> HIDE DEF G
  <2>3. <<>> \in Seq(G) /\ <<HotelItem>> \in Seq(G)
    BY <2>2
  <2> QED
    BY <1>2, <2>3
<1>6. d \in Seq(G)
  <2>1. ASSUME NEW i \in DOMAIN trip.items PROVE d[i] \in G
    <3> DEFINE x == DayItem(trip.items[i])
    <3>1. trip.items[i] \in TripItem /\ said["restaurant"] # Asked
      BY <1>1, <1>3 DEF Legs
    <3>2. x \in PlanItem /\ x.day = trip.items[i].day /\ x.kind = trip.items[i].kind /\ LegSound(x)
      BY <3>1, DaySound
    <3>3. d[i] = x
      OBVIOUS
    <3>4. x.kind \notin {"flight", "hotel"}
      BY <3>1, <3>2 DEF TripItem
    <3> HIDE DEF x
    <3>5. x \in G
      BY <3>2, <3>4
    <3> HIDE DEF G, d
    <3> QED
      BY <3>3, <3>5
  <2>2. DOMAIN d = 1 .. Len(trip.items) /\ d = [i \in 1 .. Len(trip.items) |-> d[i]]
    BY <1>3
  <2> HIDE DEF d, G
  <2>3. IsList(d)
    BY <1>3, <2>2 DEF IsList
  <2> QED
    BY <1>3, <2>1, <2>2, <2>3, ListIsSeq
<1>7. Items = (f \o h) \o d
  BY DEF Items
<1> HIDE DEF G
<1>8. f \o h \in Seq(G) /\ Len(f \o h) = Len(f) + Len(h)
  <2> HIDE DEF f, h
  <2> QED
    BY <1>4, <1>5, ConcatProperties
<1>9. Items \in Seq(G) /\ Len(Items) = Len(f) + Len(h) + Len(d)
  <2> DEFINE fh == f \o h
  <2> HIDE DEF f, h, d
  <2>1. fh \in Seq(G) /\ Len(fh) = Len(f) + Len(h) /\ Items = fh \o d
    BY <1>7, <1>8
  <2> HIDE DEF fh
  <2> QED
    BY <1>6, <2>1, ConcatProperties
<1>10. Items \in Seq(PlanItem)
  <2>1. G \subseteq PlanItem
    BY DEF G
  <2> QED
    BY <1>9, <2>1, SeqMonotonic
<1>11. trip.flight \/ trip.hotel => Items # <<>>
  <2>1. Len(f) \in Nat /\ Len(h) \in Nat /\ Len(d) \in Nat
    <3> HIDE DEF f, h, d
    <3> QED
      BY <1>4, <1>5, <1>6, LenProperties
  <2>2. (trip.flight => Len(f) = 1) /\ (trip.hotel => Len(h) = 1)
    OBVIOUS
  <2>3. Items = <<>> => Len(Items) = 0
    BY EmptySeq
  <2> HIDE DEF f, h, d
  <2> QED
    BY <1>9, <2>1, <2>2, <2>3
<1>12. \A n \in DOMAIN Items : Items[n] \in G
  BY <1>9, LenProperties, ElementOfSeq
<1>13. \A item \in G : Good(item)
  BY DEF G
<1> QED
  BY <1>10, <1>11, <1>12, <1>13

(* What a plan costs *)

\* The prefixes of a plan cost more and more, up to its total.
LEMMA SumSteps ==
    ASSUME NEW items \in Seq(PlanItem)
    PROVE  /\ Len(items) \in Nat
           /\ Total(items) \in Nat
           /\ \A n \in 1 .. Len(items) :
                 /\ Sum(items, n - 1) \in Nat /\ items[n].amount \in Nat
                 /\ Sum(items, n) = Sum(items, n - 1) + items[n].amount
                 /\ Sum(items, n) <= Total(items)
<1> DEFINE w == [i \in DOMAIN items |-> items[i].amount]
           c == Len(items)
<1>1. c \in Nat /\ DOMAIN items = 1 .. c /\ \A n \in 1 .. c : items[n] \in PlanItem
  BY LenProperties, ElementOfSeq
<1>2. \A n \in 1 .. c : w[n] = items[n].amount /\ w[n] \in Nat
  BY <1>1 DEF PlanItem
<1>3. \A n : Sum(items, n) = SumFunctionOnSet(w, 1 .. n)
  BY DEF Sum
<1> HIDE DEF w, c
<1>4. ASSUME NEW n \in 0 .. c
      PROVE  /\ IsFiniteSet(1 .. n) /\ 1 .. n \subseteq 1 .. c
             /\ SumFunctionOnSet(w, 1 .. n) \in Nat
  <2>1. n \in Nat /\ n <= c /\ 1 \in Int /\ n \in Int
    BY <1>1, <1>4
  <2>2. IsFiniteSet(1 .. n)
    BY <2>1, FS_Interval
  <2>3. \A x \in 1 .. n : w[x] \in Nat
    BY <1>1, <1>2, <2>1
  <2>4. SumFunctionOnSet(w, 1 .. n) \in Nat
    <3> DEFINE S == 1 .. n
    <3>1. IsFiniteSet(S) /\ (\A x \in S : w[x] \in Nat) /\ Nat \in {Int, Nat}
      BY <2>2, <2>3
    <3> HIDE DEF S
    <3>2. SumFunctionOnSet(w, S) \in Nat
      BY <3>1, SumType
    <3> QED
      BY <3>2 DEF S
  <2> QED
    BY <1>1, <2>1, <2>2, <2>4
<1>5. Total(items) = SumFunctionOnSet(w, 1 .. c)
  BY <1>3 DEF Total, c
<1>6. ASSUME NEW n \in 1 .. c
      PROVE  /\ Sum(items, n - 1) \in Nat /\ items[n].amount \in Nat
             /\ Sum(items, n) = Sum(items, n - 1) + items[n].amount
             /\ Sum(items, n) <= Total(items)
  <2> DEFINE S == 1 .. n
             R == 1 .. (n - 1)
             U == (n + 1) .. c
             D == 1 .. c
  <2>1. n - 1 \in 0 .. c /\ n \in 0 .. c /\ c \in 0 .. c
    BY <1>1
  <2>2. IsFiniteSet(S) /\ IsFiniteSet(D) /\ IsFiniteSet(R) /\ SumFunctionOnSet(w, R) \in Nat
        /\ SumFunctionOnSet(w, S) \in Nat
    BY <1>4, <2>1
  <2>3. n \in S /\ S \ {n} = R /\ S \subseteq D /\ U \subseteq D /\ S \cap U = {} /\ D = S \cup U
    BY <1>1
  <2>4. \A y \in D : w[y] \in Nat
    BY <1>2
  <2>5. n + 1 \in Int /\ c \in Int
    BY <1>1
  <2>6. IsFiniteSet(U)
    <3> DEFINE m == n + 1
    <3>1. m \in Int /\ U = m .. c
      BY <2>5
    <3> HIDE DEF m, U
    <3> QED
      BY <2>5, <3>1, FS_Interval
  <2> HIDE DEF S, R, U, D
  <2>7. \A y \in S : w[y] \in Int
    BY <2>3, <2>4
  <2>8. SumFunctionOnSet(w, S) = w[n] + SumFunctionOnSet(w, S \ {n})
    BY <2>2, <2>3, <2>7, SumElement
  <2>9. SumFunctionOnSet(w, S) = w[n] + SumFunctionOnSet(w, R)
    BY <2>3, <2>8
  <2>10. \A y \in S \cup U : w[y] \in Int
    BY <2>3, <2>4
  <2>11. SumFunctionOnSet(w, S \cup U) = SumFunctionOnSet(w, S) + SumFunctionOnSet(w, U)
    BY <2>2, <2>3, <2>6, <2>10, SumDisjoint
  <2>12. SumFunctionOnSet(w, D) = SumFunctionOnSet(w, S) + SumFunctionOnSet(w, U)
    BY <2>3, <2>11
  <2>13. SumFunctionOnSet(w, U) \in Nat
    <3>1. (\A x \in U : w[x] \in Nat) /\ Nat \in {Int, Nat}
      BY <2>3, <2>4
    <3> QED
      BY <2>6, <3>1, SumType
  <2>14. SumFunctionOnSet(w, S) <= SumFunctionOnSet(w, D)
    BY <2>2, <2>12, <2>13
  <2>15. Sum(items, n) = SumFunctionOnSet(w, S) /\ Sum(items, n - 1) = SumFunctionOnSet(w, R)
         /\ Total(items) = SumFunctionOnSet(w, D)
    BY <1>3, <1>5 DEF S, R, D
  <2>16. w[n] = items[n].amount /\ w[n] \in Nat
    BY <1>2
  <2>17. Sum(items, n) = Sum(items, n - 1) + items[n].amount
    <3>1. SumFunctionOnSet(w, S) = SumFunctionOnSet(w, R) + w[n]
      BY <2>2, <2>9, <2>16
    <3> QED
      BY <2>15, <2>16, <3>1
  <2> QED
    BY <2>2, <2>14, <2>15, <2>16, <2>17
<1>7. Total(items) \in Nat
  <2>1. c \in 0 .. c
    BY <1>1
  <2> QED
    BY <1>4, <1>5, <2>1
<1> QED
  BY <1>1, <1>6, <1>7 DEF c

\* A plan is bought exactly if the wallet holds its total.
LEMMA OutcomeIs ==
    ASSUME plan.items \in Seq(PlanItem), balance \in Nat
    PROVE  /\ Outcome \in {"empty", "booked", "refused"}
           /\ Outcome = "empty" => plan.items = <<>>
           /\ Outcome = "booked" => Total(plan.items) <= balance
           /\ Outcome = "refused" => Total(plan.items) > balance
<1> DEFINE items == plan.items
           stops == {n \in DOMAIN items :
                        ~Valid(items[n]) \/ items[n].amount > balance - Sum(items, n - 1)}
           c == Len(items)
<1>1. Outcome = IF items = <<>> THEN "empty"
                ELSE IF stops = {} THEN "booked"
                ELSE IF Valid(items[Min(stops)]) THEN "refused" ELSE "invalid"
  BY DEF Outcome
<1>2. /\ c \in Nat /\ DOMAIN items = 1 .. c /\ (items # <<>> => c # 0)
      /\ \A n \in 1 .. c : items[n] \in PlanItem
  BY LenProperties, ElementOfSeq, EmptySeq
<1>3. \A n \in 1 .. c : Valid(items[n])
  BY <1>2 DEF PlanItem, Valid
<1> HIDE DEF items
<1>4. /\ Total(items) \in Nat
      /\ \A n \in 1 .. c :
            /\ Sum(items, n - 1) \in Nat /\ items[n].amount \in Nat
            /\ Sum(items, n) = Sum(items, n - 1) + items[n].amount
            /\ Sum(items, n) <= Total(items)
  BY SumSteps DEF items
<1>5. CASE items # <<>> /\ stops = {}
  <2>1. c \in 1 .. c
    BY <1>2, <1>5
  <2>2. c \notin stops
    BY <1>5
  <2>3. ~(items[c].amount > balance - Sum(items, c - 1))
    BY <1>2, <2>1, <2>2
  <2>4. Sum(items, c) <= balance
    BY <1>4, <2>1, <2>3
  <2>5. Total(items) = Sum(items, c)
    BY DEF Total
  <2>6. Outcome = "booked"
    BY <1>1, <1>5
  <2> QED
    BY <2>4, <2>5, <2>6 DEF items
<1>6. CASE items # <<>> /\ stops # {}
  <2>1. stops \subseteq Nat /\ stops \subseteq 1 .. c
    BY <1>2
  <2> DEFINE n == Min(stops)
  <2>2. n \in stops
    <3> HIDE DEF stops
    <3> QED
      BY <1>6, <2>1, MinOf
  <2>3. n \in 1 .. c
    BY <2>1, <2>2
  <2>4. Valid(items[n])
    <3> HIDE DEF n
    <3> QED
      BY <1>3, <2>3
  <2>5. Outcome = "refused"
    <3> HIDE DEF stops
    <3> QED
      BY <1>1, <1>6, <2>4
  <2>6. items[n].amount > balance - Sum(items, n - 1)
    <3> HIDE DEF n
    <3> QED
      BY <2>2, <2>4
  <2>7. Total(items) > balance
    <3> HIDE DEF n
    <3> QED
      BY <1>4, <2>3, <2>6
  <2> QED
    BY <2>5, <2>7 DEF items
<1>7. CASE items = <<>>
  BY <1>1, <1>7 DEF items
<1> QED
  BY <1>5, <1>6, <1>7

-----------------------------------------------------------------------------
(* Skeleton hygiene *)

\* Clamp stays within its bounds.
LEMMA ClampIs ==
    ASSUME NEW n \in Int, NEW low \in Int, NEW high \in Int, low <= high
    PROVE  Clamp(n, low, high) \in low .. high
BY DEF Clamp

\* What is kept of a skeleton's entries are of the day's kinds.
LEMMA KeptIs ==
    ASSUME NEW s \in Skeletons
    PROVE  /\ IsList(Kept(s.items))
           /\ \A i \in DOMAIN Kept(s.items) :
                  Kept(s.items)[i] \in [kind : {"restaurant", "activity", "transfer"}, day : Day,
                                        free : BOOLEAN]
<1> DEFINE raw == s.items
           X == [kind : STRING, day : Day, free : BOOLEAN]
           Y == [kind : {"restaurant", "activity", "transfer"}, day : Day, free : BOOLEAN]
           S == {i \in DOMAIN raw : raw[i].kind \in {"restaurant", "activity", "transfer"}}
<1>1. raw \in Seq(X)
  BY PlannerAssumption
<1>2. Kept(raw) = Only(raw, S)
  BY DEF Kept
<1> HIDE DEF raw
<1>3. Len(raw) \in Nat /\ DOMAIN raw = 1 .. Len(raw) /\ \A i \in DOMAIN raw : raw[i] \in X
  <2> HIDE DEF X
  <2> QED
    BY <1>1, LenProperties, ElementOfSeq
<1>4. \A i \in S : raw[i] \in Y
  BY <1>3
<1>5. S \subseteq DOMAIN raw
  OBVIOUS
<1> HIDE DEF S, X, Y
<1>6. Only(raw, S) \in Seq(Y)
  BY <1>1, <1>4, <1>5, OnlyKind
<1>7. IsList(Only(raw, S)) /\ \A i \in DOMAIN Only(raw, S) : Only(raw, S)[i] \in Y
  BY <1>6, SeqIsList, LenProperties, ElementOfSeq
<1> QED
  BY <1>2, <1>7 DEF raw, Y

\* A skeleton that does not overflow has one to thirty days, and its entries lie within.
LEMMA HygieneIs ==
    ASSUME NEW s \in Skeletons, ~Overflows(s)
    PROVE  /\ ClampDays(s.days) \in 1 .. 30
           /\ NormaliseItems(s.items, ClampDays(s.days)) \in Seq(TripItem)
           /\ \A i \in DOMAIN NormaliseItems(s.items, ClampDays(s.days)) :
                  NormaliseItems(s.items, ClampDays(s.days))[i].day \in 1 .. ClampDays(s.days)
<1> DEFINE days == ClampDays(s.days)
           kept == Kept(s.items)
           D(i) == IF kept[i].day = Junk THEN 1 ELSE Clamp(kept[i].day, 1, days)
           list == NormaliseItems(s.items, days)
<1>1. s.days \in Day /\ s.days # Infinite
  BY PlannerAssumption DEF Overflows
<1>2. days \in 1 .. 30
  <2>1. s.days # Junk => s.days \in Int
    BY <1>1 DEF Day
  <2>2. s.days # Junk => Clamp(s.days, 1, 30) \in 1 .. 30
    <3> SUFFICES ASSUME s.days # Junk PROVE Clamp(s.days, 1, 30) \in 1 .. 30
      OBVIOUS
    <3>1. s.days \in Int /\ 1 \in Int /\ 30 \in Int /\ 1 <= 30
      BY <2>1
    <3> QED
      BY <3>1, ClampIs
  <2> QED
    BY <2>2 DEF ClampDays
<1>3. list = [i \in DOMAIN kept |-> [kept[i] EXCEPT !.day = D(i)]]
  BY DEF NormaliseItems
<1>4. \A i \in DOMAIN kept : kept[i].day # Infinite
  BY DEF Overflows
<1>5. /\ IsList(kept)
      /\ \A i \in DOMAIN kept :
             kept[i] \in [kind : {"restaurant", "activity", "transfer"}, day : Day, free : BOOLEAN]
  BY KeptIs
<1> HIDE DEF days, kept, list
<1>6. ASSUME NEW i \in DOMAIN kept PROVE list[i] \in TripItem /\ list[i].day \in 1 .. days
  <2> DEFINE k == kept[i]
             d == D(i)
  <2>1. k \in [kind : {"restaurant", "activity", "transfer"}, day : Day, free : BOOLEAN]
    BY <1>5
  <2>2. k.day # Junk => k.day \in Int
    BY <1>4, <2>1 DEF Day
  <2>3. k.day # Junk => Clamp(k.day, 1, days) \in 1 .. days
    <3> SUFFICES ASSUME k.day # Junk PROVE Clamp(k.day, 1, days) \in 1 .. days
      OBVIOUS
    <3>1. k.day \in Int /\ 1 \in Int /\ days \in Int /\ 1 <= days
      BY <1>2, <2>2
    <3> HIDE DEF k
    <3> QED
      BY <3>1, ClampIs
  <2>4. d \in 1 .. days
    BY <1>2, <2>3
  <2>5. list[i] = [k EXCEPT !.day = d]
    BY <1>3
  <2> HIDE DEF k, d
  <2>6. d \in Int
    BY <1>2, <2>4
  <2> QED
    BY <2>1, <2>4, <2>5, <2>6 DEF TripItem
<1>7. IsList(list) /\ DOMAIN list = DOMAIN kept
  BY <1>3, <1>5 DEF IsList
<1>8. list \in Seq(TripItem)
  BY <1>6, <1>7, ListIsSeq
<1> QED
  BY <1>2, <1>6, <1>7, <1>8 DEF days, list

\* The entries that the rules make: dinner and a transfer, in this order, without a day.
LEMMA RulesItems ==
    ASSUME NEW wants
    PROVE  LET daily == <<"restaurant", "transfer">>
               ordered == Only(daily, {i \in DOMAIN daily : daily[i] \in wants})
               list == [i \in DOMAIN ordered |-> [kind |-> ordered[i], day |-> 0, free |-> FALSE]]
           IN  list \in Seq(TripItem) /\ \A i \in DOMAIN list : list[i].day = 0
<1> DEFINE daily == <<"restaurant", "transfer">>
           X == {"restaurant", "transfer"}
           S == {i \in DOMAIN daily : daily[i] \in wants}
           ordered == Only(daily, S)
           list == [i \in DOMAIN ordered |-> [kind |-> ordered[i], day |-> 0, free |-> FALSE]]
<1>1. daily \in Seq(X)
  OBVIOUS
<1>2. S \subseteq DOMAIN daily
  OBVIOUS
<1> HIDE DEF daily, X, S
<1>3. ordered \in Seq(X)
  BY <1>1, <1>2, OnlySeq
<1> HIDE DEF ordered
<1>4. IsList(ordered) /\ \A i \in DOMAIN ordered : ordered[i] \in X
  BY <1>3, SeqIsList, LenProperties, ElementOfSeq
<1>5. IsList(list) /\ DOMAIN list = DOMAIN ordered
  BY <1>4 DEF IsList
<1>6. \A i \in DOMAIN list : list[i] \in TripItem /\ list[i].day = 0
  BY <1>4 DEF TripItem, X
<1>7. list \in Seq(TripItem)
  <2> HIDE DEF list
  <2> QED
    BY <1>5, <1>6, ListIsSeq
<1> HIDE DEF list
<1>8. list \in Seq(TripItem) /\ \A i \in DOMAIN list : list[i].day = 0
  BY <1>6, <1>7
<1> QED
  BY <1>8 DEF list, ordered, S, daily

-----------------------------------------------------------------------------
(* The invariant of the planner *)

\* Only the language model's entries have a day.
DaysSound ==
    \A i \in DOMAIN trip.items :
        IF path = "ai" THEN trip.items[i].day \in 1 .. trip.nights ELSE trip.items[i].day = 0

PathSound ==
    /\ path \in {"ai", "rules"}
    /\ pc = "design" => path = "ai"
    /\ pc = "rules" => path = "rules"
    /\ pc = "legs" => DaysSound /\ (path = "rules" => trip.flight)
    /\ pc \in {"idle", "design", "rules", "legs"} => plan = NoPlan
    /\ prompt \in Prompts
    /\ pc \in Turning => endpoint = "chat"

\* Where the plan is paid from.
WalletUntouched ==
    endpoint # "chat" /\ pc # "booked" => balance = Opening

DayShown(item) ==
    IF path = "ai" /\ item.kind \notin {"flight", "hotel"} THEN item.day \in 1 .. trip.nights
    ELSE item.day = 0

\* A plan as it is shown.
PlanSound ==
    plan # NoPlan =>
        /\ plan.items \in Seq(PlanItem)
        /\ plan.total = Total(plan.items)
        /\ \A n \in DOMAIN plan.items : LegSound(plan.items[n]) /\ DayShown(plan.items[n])
        /\ trip.flight \/ trip.hotel => plan.items # <<>>
        /\ path = "rules" => trip.flight
        /\ endpoint = "ai-plan" => plan.currency = WalletCurrency

\* What confirming a plan came to.
ConfirmSound ==
    /\ pc # "invalid"
    /\ pc = "booked" => balance = Opening - plan.total /\ plan.total <= Opening
    /\ pc = "refused" => plan.total > Opening
    /\ pc = "empty" => path = "ai" /\ ~trip.flight /\ ~trip.hotel

PlannerInv ==
    /\ TripTyped
    /\ SaidSound
    /\ PathSound
    /\ WalletUntouched
    /\ PlanSound
    /\ ConfirmSound

\* A request begins within the invariant.
LEMMA PlannerInit == Init => PlannerInv
<1> SUFFICES ASSUME Init PROVE PlannerInv
  OBVIOUS
<1> USE DEF Init
<1>1. TripTyped
  <2>1. trip = [flight |-> FALSE, hotel |-> FALSE, nights |-> 1, items |-> <<>>]
    BY DEF NoTrip
  <2>2. <<>> \in Seq(TripItem)
    OBVIOUS
  <2> QED
    BY <2>1, <2>2 DEF TripTyped
<1>2. SaidSound
  BY DEF SaidSound
<1>3. PathSound
  BY DEF PathSound, Turning
<1>4. WalletUntouched /\ PlanSound /\ ConfirmSound
  BY DEF WalletUntouched, PlanSound, ConfirmSound
<1> QED
  BY <1>1, <1>2, <1>3, <1>4 DEF PlannerInv

\* The parts a step does not disturb.
LEMMA TripFrame == ASSUME TripTyped, UNCHANGED trip PROVE TripTyped'
BY DEF TripTyped

\* What the searches have returned stays sound.
LEMMA SaidFrame == ASSUME SaidSound, UNCHANGED <<said, tasks>> PROVE SaidSound'
<1>1. said' = said /\ tasks' = tasks
  OBVIOUS
<1>2. \A l : said'[l] = said[l]
  BY <1>1
<1> QED
  BY <1>1, <1>2 DEF SaidSound

\* An item stays sound while the searches have nothing to add.
LEMMA LegFrame == ASSUME UNCHANGED said, NEW item PROVE LegSound(item) => LegSound(item)'
<1>1. \A l : Quoted(l)' = Quoted(l)
  BY DEF Quoted
<1> QED
  BY <1>1 DEF LegSound

\* A plan stays sound while what it was composed of stays.
LEMMA PlanFrame ==
    ASSUME PlanSound, plan' = plan, endpoint' = endpoint,
           plan # NoPlan => UNCHANGED <<said, trip, path>>
    PROVE  PlanSound'
<1> SUFFICES ASSUME plan # NoPlan PROVE PlanSound'
  BY DEF PlanSound
<1>1. said' = said /\ trip' = trip /\ path' = path
  OBVIOUS
<1>2. \A item : LegSound(item) => LegSound(item)'
  BY <1>1, LegFrame
<1>3. \A item : DayShown(item) => DayShown(item)'
  BY <1>1 DEF DayShown
<1>4. Total(plan.items)' = Total(plan.items)
  BY DEF Total, Sum
<1> QED
  BY <1>1, <1>2, <1>3, <1>4 DEF PlanSound

-----------------------------------------------------------------------------
(* The planner's steps *)

\* _fetch_live starts the searches of the legs that are wanted.
LEMMA SearchStep ==
    ASSUME NEW t \in [flight : BOOLEAN, hotel : BOOLEAN, nights : 1 .. 30, items : Seq(TripItem)],
           NEW known, Search(t, known)
    PROVE  TripTyped' /\ SaidSound' /\ trip' = t /\ pc' = "legs"
<1>1. trip' = t /\ pc' = "legs"
  BY DEF Search
<1>2. TripTyped'
  BY <1>1 DEF TripTyped
<1>3. tasks' \subseteq Legs /\ said' = [l \in Legs |-> IF l \in tasks' THEN Asked ELSE Failed]
  BY DEF Search
<1>4. SaidSound'
  BY <1>3 DEF SaidSound
<1> QED
  BY <1>1, <1>2, <1>4

\* While nothing is confirmed, nothing has come of it.
LEMMA Unconfirmed ==
    ASSUME pc' \in {"design", "rules", "legs", "summary", "answered", "error", "model", "tool"}
    PROVE  ConfirmSound'
BY DEF ConfirmSound

\* A wallet that is not charged stays untouched.
LEMMA Unpaid ==
    ASSUME WalletUntouched, UNCHANGED <<balance, endpoint>>, pc # "booked"
    PROVE  WalletUntouched'
BY DEF WalletUntouched

\* Where there is no plan nothing is said of one.
LEMMA NoPlanYet == ASSUME plan = NoPlan, UNCHANGED plan PROVE PlanSound'
BY DEF PlanSound

\* A request is received by the rules or by the language model.
LEMMA ReceiveStep == ASSUME PlannerInv, Receive PROVE PlannerInv'
<1> USE DEF Receive, request
<1>1. TripTyped' /\ SaidSound'
  BY TripFrame, SaidFrame DEF PlannerInv
<1>2. plan = NoPlan /\ prompt \in Prompts
  BY DEF PlannerInv, PathSound
<1>3. PlanSound'
  BY <1>2, NoPlanYet
<1>4. pc' \in {"error", "design", "rules"} /\ path' = IF pc' = "design" THEN "ai" ELSE "rules"
  OBVIOUS
<1>5. PathSound'
  BY <1>2, <1>4 DEF PathSound, Turning
<1>6. WalletUntouched' /\ ConfirmSound'
  BY <1>4, Unpaid, Unconfirmed DEF PlannerInv
<1> QED
  BY <1>1, <1>3, <1>5, <1>6 DEF PlannerInv

\* The rules take over with nothing composed.
LEMMA FallBackStep == ASSUME PlannerInv, FallBack, pc # "booked", plan = NoPlan PROVE PlannerInv'
<1> USE DEF FallBack, request
<1>1. TripTyped' /\ SaidSound'
  BY TripFrame, SaidFrame DEF PlannerInv
<1>2. PlanSound' /\ WalletUntouched' /\ ConfirmSound'
  BY NoPlanYet, Unpaid, Unconfirmed DEF PlannerInv
<1>3. PathSound'
  BY DEF PlannerInv, PathSound, Turning
<1> QED
  BY <1>1, <1>2, <1>3 DEF PlannerInv

\* A skeleton is cleaned before it is searched for.
LEMMA DesignStep == ASSUME PlannerInv, Design PROVE PlannerInv'
<1>1. pc = "design" /\ plan = NoPlan /\ path = "ai" /\ prompt \in Prompts
  BY DEF PlannerInv, PathSound, Design
<1>2. CASE FallBack
  BY <1>1, <1>2, FallBackStep
<1>3. ASSUME NEW s \in Skeletons, ~(~s.destination \/ Overflows(s)),
             Search([flight |-> s.flight, hotel |-> s.hotel, nights |-> ClampDays(s.days),
                     items |-> NormaliseItems(s.items, ClampDays(s.days))], s.known),
             UNCHANGED <<request, path, plan, balance>>
      PROVE  PlannerInv'
  <2> DEFINE days == ClampDays(s.days)
             items == NormaliseItems(s.items, days)
             t == [flight |-> s.flight, hotel |-> s.hotel, nights |-> days, items |-> items]
  <2>1. days \in 1 .. 30 /\ items \in Seq(TripItem) /\ \A i \in DOMAIN items : items[i].day \in 1 .. days
    BY <1>3, HygieneIs
  <2>2. s.flight \in BOOLEAN /\ s.hotel \in BOOLEAN
    BY PlannerAssumption
  <2>3. Search(t, s.known)
    BY <1>3
  <2> HIDE DEF days, items
  <2>4. t \in [flight : BOOLEAN, hotel : BOOLEAN, nights : 1 .. 30, items : Seq(TripItem)]
    BY <2>1, <2>2
  <2>5. t.items = items /\ t.nights = days
    OBVIOUS
  <2> HIDE DEF t
  <2>6. TripTyped' /\ SaidSound' /\ trip' = t /\ pc' = "legs"
    BY <2>3, <2>4, SearchStep
  <2>7. UNCHANGED <<endpoint, prompt, path, plan, balance>>
    BY <1>3 DEF request
  <2>8. DaysSound'
    BY <1>1, <2>1, <2>5, <2>6, <2>7 DEF DaysSound
  <2>9. PathSound'
    BY <1>1, <2>6, <2>7, <2>8 DEF PathSound, Turning
  <2>10. PlanSound' /\ WalletUntouched' /\ ConfirmSound'
    BY <1>1, <2>6, <2>7, NoPlanYet, Unpaid, Unconfirmed DEF PlannerInv
  <2> QED
    BY <2>6, <2>9, <2>10 DEF PlannerInv
<1> QED
  BY <1>2, <1>3 DEF Design

\* The rules search for what the sentence wants, without days.
LEMMA RulesStep == ASSUME PlannerInv, Rules PROVE PlannerInv'
<1>1. pc = "rules" /\ plan = NoPlan /\ path = "rules" /\ prompt \in Prompts
  BY DEF PlannerInv, PathSound, Rules
<1>2. UNCHANGED <<endpoint, prompt, path, plan, balance>>
  BY DEF Rules, request
<1>3. CASE UNCHANGED <<trip, tasks, said>> /\ pc' \in {"answered", "error"}
  <2>1. TripTyped' /\ SaidSound'
    BY <1>3, TripFrame, SaidFrame DEF PlannerInv
  <2>2. PlanSound' /\ WalletUntouched' /\ ConfirmSound'
    BY <1>1, <1>2, <1>3, NoPlanYet, Unpaid, Unconfirmed DEF PlannerInv
  <2>3. PathSound'
    BY <1>1, <1>2, <1>3 DEF PathSound, Turning
  <2> QED
    BY <2>1, <2>2, <2>3 DEF PlannerInv
<1>4. ASSUME NEW wants,
             LET daily == <<"restaurant", "transfer">>
                 ordered == Only(daily, {i \in DOMAIN daily : daily[i] \in wants})
             IN  Search([flight |-> TRUE, hotel |-> "hotel" \in wants,
                         nights |-> Clamp(prompt.nights, 1, 30),
                         items |-> [i \in DOMAIN ordered |->
                                       [kind |-> ordered[i], day |-> 0, free |-> FALSE]]],
                        prompt.known)
      PROVE  PlannerInv'
  <2> DEFINE daily == <<"restaurant", "transfer">>
             ordered == Only(daily, {i \in DOMAIN daily : daily[i] \in wants})
             items == [i \in DOMAIN ordered |-> [kind |-> ordered[i], day |-> 0, free |-> FALSE]]
             h == "hotel" \in wants
             n == Clamp(prompt.nights, 1, 30)
             t == [flight |-> TRUE, hotel |-> h, nights |-> n, items |-> items]
  <2>1. items \in Seq(TripItem) /\ \A i \in DOMAIN items : items[i].day = 0
    BY RulesItems
  <2>2. h \in BOOLEAN
    OBVIOUS
  <2>3. n \in 1 .. 30
    <3>1. prompt.nights \in Int /\ 1 \in Int /\ 30 \in Int /\ 1 <= 30
      BY <1>1, PlannerAssumption
    <3> QED
      BY <3>1, ClampIs
  <2>4. Search(t, prompt.known)
    BY <1>4
  <2> HIDE DEF items, h, n, ordered, daily
  <2>5. t \in [flight : BOOLEAN, hotel : BOOLEAN, nights : 1 .. 30, items : Seq(TripItem)]
    BY <2>1, <2>2, <2>3
  <2>6. t.items = items /\ t.nights = n /\ t.flight
    OBVIOUS
  <2> HIDE DEF t
  <2>7. TripTyped' /\ SaidSound' /\ trip' = t /\ pc' = "legs"
    BY <2>4, <2>5, SearchStep
  <2>8. DaysSound'
    BY <1>1, <1>2, <2>1, <2>6, <2>7 DEF DaysSound
  <2>9. PathSound'
    BY <1>1, <1>2, <2>6, <2>7, <2>8 DEF PathSound, Turning
  <2>10. PlanSound' /\ WalletUntouched' /\ ConfirmSound'
    BY <1>1, <1>2, <2>7, NoPlanYet, Unpaid, Unconfirmed DEF PlannerInv
  <2> QED
    BY <2>7, <2>9, <2>10 DEF PlannerInv
<1> QED
  BY <1>3, <1>4 DEF Rules

\* A search answers or fails on its own.
LEMMA AnswerStep ==
    ASSUME PlannerInv, NEW l \in Legs, LegAnswers(l) \/ LegFails(l)
    PROVE  PlannerInv'
<1>1. /\ pc = "legs" /\ said[l] = Asked
      /\ UNCHANGED <<endpoint, prompt, pc, path, trip, tasks, plan, balance>>
  BY DEF LegAnswers, LegFails, request
<1>2. plan = NoPlan
  BY <1>1 DEF PlannerInv, PathSound
<1>3. PICK x \in {Failed} \cup Seq(Option(l)) : said' = [said EXCEPT ![l] = x]
  <2>1. CASE LegAnswers(l)
    <3>1. PICK list \in Said(l, trip.nights) : said' = [said EXCEPT ![l] = list]
      BY <2>1 DEF LegAnswers
    <3>2. trip.nights \in Int
      <4>1. trip.nights \in 1 .. 30
        BY DEF PlannerInv, TripTyped
      <4> QED
        BY <4>1
    <3>3. list \in Seq(Option(l))
      BY <3>2, SaidTyped
    <3> QED
      BY <3>1, <3>3
  <2>2. CASE LegFails(l)
    BY <2>2 DEF LegFails
  <2> QED
    BY <2>1, <2>2
<1>4. SaidSound'
  <2>1. said = [k \in Legs |-> said[k]] /\ \A k \in Legs : said[k] \in {Asked, Failed} \cup Seq(Option(k))
    BY DEF PlannerInv, SaidSound
  <2>2. l \in tasks
    BY <1>1, PlannerAssumption DEF PlannerInv, SaidSound
  <2>3. DOMAIN said = Legs
    BY <2>1
  <2>4. said' = [k \in Legs |-> said'[k]]
    BY <1>3, <2>3
  <2>5. \A k \in Legs : said'[k] = IF k = l THEN x ELSE said[k]
    BY <1>3, <2>3
  <2>6. \A k \in Legs : said'[k] \in {Asked, Failed} \cup Seq(Option(k))
    BY <2>1, <2>5, <1>3
  <2>7. \A k \in Legs : k \notin tasks => said'[k] = Failed
    BY <2>2, <2>5 DEF PlannerInv, SaidSound
  <2>8. tasks' = tasks /\ tasks \subseteq Legs
    BY <1>1 DEF PlannerInv, SaidSound
  <2> QED
    BY <2>4, <2>6, <2>7, <2>8 DEF SaidSound
<1>5. TripTyped' /\ PlanSound' /\ WalletUntouched' /\ ConfirmSound'
  BY <1>1, <1>2, TripFrame, NoPlanYet, Unpaid, Unconfirmed DEF PlannerInv
<1>6. PathSound'
  BY <1>1 DEF PlannerInv, PathSound, Turning, DaysSound
<1> QED
  BY <1>4, <1>5, <1>6 DEF PlannerInv

\* A plan is sound when it is composed.
LEMMA ComposeStep ==
    ASSUME PlannerInv, pc = "legs", Ended, NEW budget, plan' = Plan(budget),
           UNCHANGED <<endpoint, path, trip, said>>
    PROVE  PlanSound'
<1> PICK items : items = Items
  OBVIOUS
<1>1. /\ items \in Seq(PlanItem)
      /\ trip.flight \/ trip.hotel => items # <<>>
      /\ \A n \in DOMAIN items :
            /\ LegSound(items[n])
            /\ \/ items[n].kind \in {"flight", "hotel"} /\ items[n].day = 0
               \/ /\ items[n].kind \notin {"flight", "hotel"}
                  /\ \E i \in DOMAIN trip.items : items[n].day = trip.items[i].day
  BY ItemsSound DEF PlannerInv
<1>2. /\ plan'.items = items /\ plan'.total = Total(items)
      /\ plan'.currency = CurrencyOf
  BY DEF Plan
<1>3. DaysSound /\ (path = "rules" => trip.flight)
  BY DEF PlannerInv, PathSound
<1>4. \A n \in DOMAIN items : DayShown(items[n])
  BY <1>1, <1>3 DEF DaysSound, DayShown
<1>5. \A item : LegSound(item) => LegSound(item)'
  BY LegFrame
<1>6. \A item : DayShown(item) => DayShown(item)'
  BY DEF DayShown
<1>7. Total(plan.items)' = Total(items)
  BY <1>2 DEF Total, Sum
<1>8. endpoint = "ai-plan" => plan'.currency = WalletCurrency
  BY <1>2 DEF CurrencyOf
<1>9. \A n \in DOMAIN items : LegSound(items[n])' /\ DayShown(items[n])'
  BY <1>1, <1>4, <1>5, <1>6
<1> QED
  BY <1>1, <1>2, <1>3, <1>7, <1>8, <1>9 DEF PlanSound

\* The rules' plan is sound.
LEMMA ComposeRulesStep == ASSUME PlannerInv, ComposeRules PROVE PlannerInv'
<1>1. /\ pc = "legs" /\ Ended /\ plan' = Plan(RulesBudget) /\ pc' = "answered"
      /\ UNCHANGED <<endpoint, prompt, path, trip, tasks, said, balance>>
  BY DEF ComposeRules, request
<1>2. TripTyped' /\ SaidSound' /\ WalletUntouched' /\ ConfirmSound'
  BY <1>1, TripFrame, SaidFrame, Unpaid, Unconfirmed DEF PlannerInv
<1>3. PathSound'
  BY <1>1 DEF PlannerInv, PathSound, Turning
<1>4. PlanSound'
  BY <1>1, ComposeStep
<1> QED
  BY <1>2, <1>3, <1>4 DEF PlannerInv

\* So is the itinerary, or the rules take over.
LEMMA ComposeItineraryStep == ASSUME PlannerInv, ComposeItinerary PROVE PlannerInv'
<1>1. pc = "legs" /\ Ended /\ plan = NoPlan
  BY DEF PlannerInv, PathSound, ComposeItinerary
<1>2. CASE FallBack
  BY <1>1, <1>2, FallBackStep
<1>3. CASE ~FallBack
  <2>1. /\ plan' = Plan(ItineraryBudget) /\ pc' = "summary"
        /\ UNCHANGED <<endpoint, prompt, path, trip, tasks, said, balance>>
    BY <1>3 DEF ComposeItinerary, request
  <2>2. TripTyped' /\ SaidSound' /\ WalletUntouched' /\ ConfirmSound'
    BY <1>1, <2>1, TripFrame, SaidFrame, Unpaid, Unconfirmed DEF PlannerInv
  <2>3. PathSound'
    BY <1>1, <2>1 DEF PlannerInv, PathSound, Turning
  <2>4. PlanSound'
    BY <1>1, <2>1, ComposeStep
  <2> QED
    BY <2>2, <2>3, <2>4 DEF PlannerInv
<1> QED
  BY <1>2, <1>3

\* A summary changes nothing of a plan.
LEMMA SummariseStep == ASSUME PlannerInv, Summarise PROVE PlannerInv'
<1>1. /\ pc = "summary" /\ pc' = "answered"
      /\ UNCHANGED <<endpoint, prompt, path, trip, tasks, said, plan, balance>>
  BY DEF Summarise, request
<1>2. TripTyped' /\ SaidSound' /\ WalletUntouched' /\ ConfirmSound' /\ PlanSound'
  BY <1>1, TripFrame, SaidFrame, Unpaid, Unconfirmed, PlanFrame DEF PlannerInv
<1>3. PathSound'
  BY <1>1 DEF PlannerInv, PathSound, Turning
<1> QED
  BY <1>2, <1>3 DEF PlannerInv

\* A plan costs what was shown, or is refused because the wallet holds less.
LEMMA ConfirmStep == ASSUME PlannerInv, Confirm PROVE PlannerInv'
<1>1. /\ pc = "answered" /\ plan # NoPlan /\ endpoint # "chat" /\ pc' = Outcome
      /\ balance' = IF pc' = "booked" THEN balance - Total(plan.items) ELSE balance
      /\ UNCHANGED <<endpoint, prompt, path, trip, tasks, said, plan>>
  BY DEF Confirm, request
<1>2. TripTyped' /\ SaidSound' /\ PlanSound'
  BY <1>1, TripFrame, SaidFrame, PlanFrame DEF PlannerInv
<1>3. balance = Opening /\ Opening \in Nat
  BY <1>1, PlannerAssumption DEF PlannerInv, WalletUntouched
<1>4. /\ plan.items \in Seq(PlanItem) /\ plan.total = Total(plan.items)
      /\ trip.flight \/ trip.hotel => plan.items # <<>>
      /\ path = "rules" => trip.flight
  BY <1>1 DEF PlannerInv, PlanSound
<1>5. /\ pc' \in {"empty", "booked", "refused"}
      /\ pc' = "empty" => plan.items = <<>>
      /\ pc' = "booked" => Total(plan.items) <= balance
      /\ pc' = "refused" => Total(plan.items) > balance
  BY <1>1, <1>3, <1>4, OutcomeIs
<1>6. WalletUntouched'
  BY <1>1, <1>3 DEF WalletUntouched
<1>7. PathSound'
  BY <1>1, <1>5 DEF PlannerInv, PathSound, Turning
<1>8. ConfirmSound'
  <2>1. pc' = "booked" => balance' = Opening - plan'.total /\ plan'.total <= Opening
    BY <1>1, <1>3, <1>4, <1>5
  <2>2. pc' = "refused" => plan'.total > Opening
    BY <1>1, <1>3, <1>4, <1>5
  <2>3. pc' = "empty" => path' = "ai" /\ ~trip'.flight /\ ~trip'.hotel
    BY <1>1, <1>4, <1>5 DEF PlannerInv, PathSound
  <2> QED
    BY <1>5, <2>1, <2>2, <2>3 DEF ConfirmSound
<1> QED
  BY <1>2, <1>6, <1>7, <1>8 DEF PlannerInv

\* Every step of the planner preserves its invariant.
LEMMA PlannerNext == ASSUME PlannerInv, Next PROVE PlannerInv'
BY ReceiveStep, DesignStep, RulesStep, AnswerStep, ComposeRulesStep, ComposeItineraryStep,
   SummariseStep, ConfirmStep DEF Next, Step

\* A turn of the concierge leaves the planner alone.
LEMMA TurnFrame ==
    ASSUME Turn
    PROVE  /\ pc \in Turning /\ pc' \in {"model", "tool", "answered", "error"}
           /\ UNCHANGED plannerVars
BY DEF Turn, CallTools, GiveUp, Speak, SearchAgain, SearchFlights, SearchHotels, SearchRestaurants,
       BookPriced, BookRestaurant, OtherTool, Raise, Reply, NextCall, Turning

\* So does a turn of the concierge, which leaves the planner alone.
LEMMA PlannerAside ==
    ASSUME PlannerInv, Listen \/ Turn
    PROVE  PlannerInv'
<1>1. /\ pc \in {"idle", "model", "tool"} /\ pc' \in {"model", "tool", "answered", "error"}
      /\ endpoint = "chat" /\ UNCHANGED plannerVars
  <2>1. CASE Listen
    BY <2>1 DEF Listen
  <2>2. CASE Turn
    BY <2>2, TurnFrame DEF Turning, PlannerInv, PathSound
  <2> QED
    BY <2>1, <2>2
<1>2. UNCHANGED <<endpoint, prompt, path, trip, tasks, said, plan>>
  BY <1>1 DEF plannerVars, request
<1>3. TripTyped' /\ SaidSound' /\ PlanSound' /\ ConfirmSound'
  BY <1>1, <1>2, TripFrame, SaidFrame, PlanFrame, Unconfirmed DEF PlannerInv
<1>4. PathSound' /\ WalletUntouched'
  BY <1>1, <1>2 DEF PlannerInv, PathSound, Turning, WalletUntouched
<1> QED
  BY <1>3, <1>4 DEF PlannerInv

\* So does a step that changes nothing.
LEMMA PlannerStutters ==
    ASSUME PlannerInv, UNCHANGED vars
    PROVE  PlannerInv'
<1>1. UNCHANGED <<endpoint, prompt, pc, path, trip, tasks, said, plan, balance>>
  BY DEF vars, request
<1>2. TripTyped' /\ SaidSound' /\ PlanSound'
  BY <1>1, TripFrame, SaidFrame, PlanFrame DEF PlannerInv
<1>3. PathSound' /\ WalletUntouched' /\ ConfirmSound'
  BY <1>1 DEF PlannerInv, PathSound, DaysSound, WalletUntouched, ConfirmSound
<1> QED
  BY <1>2, <1>3 DEF PlannerInv

\* The invariant of the planner holds throughout: the legs, nights and entries that are to
\* be priced, what the searches returned, the plan that was composed of it and what came of
\* confirming it.
THEOREM PlannerIsSound == ConciergeSpec => []PlannerInv
<1>1. ConciergeInit => PlannerInv
  BY PlannerInit DEF ConciergeInit
<1>2. PlannerInv /\ [ConciergeNext]_<<vars, history, turnVars>> => PlannerInv'
  BY PlannerNext, PlannerAside, PlannerStutters DEF ConciergeNext
<1> QED
  BY <1>1, <1>2, PTL DEF ConciergeSpec

\* The invariant implies that legs degrade alone.
LEMMA LegsFollow == PlannerInv => LegsDegradeAlone
BY DEF PlannerInv, PlanSound, LegSound, LegsDegradeAlone

\* It implies that a plan can be confirmed as it is shown.
LEMMA ConfirmFollows == PlannerInv => PlanConfirmable
<1> SUFFICES ASSUME PlannerInv PROVE PlanConfirmable
  OBVIOUS
<1>1. ConfirmSound /\ PlanSound
  BY DEF PlannerInv
<1>2. plan # NoPlan => \A i \in DOMAIN plan.items : DayShown(plan.items[i])
  BY <1>1 DEF PlanSound
<1> QED
  BY <1>1, <1>2 DEF ConfirmSound, PlanSound, PlanConfirmable, DayShown

\* Whichever searches fail, are late or are never started, an item of a plan is live exactly
\* if its own search has priced something, and then it costs what that search has quoted
\* (TripPlannerService and AiItineraryService, the zip of tasks and results in _fetch_live).
THEOREM LegsDegradeAlways == ConciergeSpec => []LegsDegradeAlone
BY PlannerIsSound, LegsFollow, PTL

\* A plan is confirmed as it was shown: WalletService.purchase takes its total, refuses it
\* exactly if the wallet holds less and never finds an item invalid; an ai-plan is in the
\* currency of the wallet and its items lie within its days.
THEOREM PlansConfirmable == ConciergeSpec => []PlanConfirmable
BY PlannerIsSound, ConfirmFollows, PTL

-----------------------------------------------------------------------------
(* What is shown and what is told *)

\* The lesser of two numbers.
LEMMA MinTwo == ASSUME NEW a \in Nat, NEW b \in Nat
                PROVE Min({a, b}) \in Nat /\ Min({a, b}) <= a /\ Min({a, b}) <= b /\ Min({a, b}) \in {a, b}
<1>1. {a, b} \subseteq Nat /\ {a, b} # {} /\ a \in {a, b} /\ b \in {a, b}
  OBVIOUS
<1>2. Min({a, b}) \in {a, b} /\ \A y \in {a, b} : Min({a, b}) <= y
  BY <1>1, MinOf
<1> QED
  BY <1>1, <1>2

\* The greater of two numbers.
LEMMA MaxTwo == ASSUME NEW a \in Int, NEW b \in Int PROVE Max({a, b}) \in Int
<1>1. \E x \in {a, b} : \A y \in {a, b} : x >= y
  OBVIOUS
<1>2. Max({a, b}) \in {a, b}
  BY <1>1 DEF Max
<1> QED
  BY <1>2

\* The first n of a list.
LEMMA FirstFew ==
    ASSUME NEW s, IsList(s), NEW n \in Nat, n <= Len(s)
    PROVE  /\ IsList(SubSeq(s, 1, n)) /\ Len(SubSeq(s, 1, n)) = n
           /\ IsPrefix(SubSeq(s, 1, n), s)
<1> DEFINE X == ToSet(s)
           t == SubSeq(s, 1, n)
<1>1. s \in Seq(X) /\ Len(s) \in Nat /\ DOMAIN s = 1 .. Len(s)
  BY ListLen
<1> HIDE DEF X
<1>2. \A i \in 1 .. n : s[i] \in X
  BY <1>1, ElementOfSeq
<1>3. t \in Seq(X) /\ Len(t) = n
  <2>1. 1 \in Int /\ n \in Int
    OBVIOUS
  <2>2. t \in Seq(X) /\ Len(t) = IF 1 <= n THEN n - 1 + 1 ELSE 0
    BY <1>2, <2>1, SubSeqProperties
  <2> HIDE DEF t
  <2> QED
    BY <2>2
<1> HIDE DEF t
<1>4. SubSeq(t, 1, Len(t)) = t
  BY <1>3, SubSeqFull
<1>5. IsPrefix(t, s)
  BY <1>1, <1>3, <1>4 DEF IsPrefix, t
<1>6. IsList(t)
  BY <1>3, SeqIsList
<1> QED
  BY <1>3, <1>5, <1>6 DEF t

\* The cards are the first six options, and empty only if there are none.
LEMMA ShownIs ==
    ASSUME NEW options, IsList(options)
    PROVE  /\ IsList(Shown(options))
           /\ Shown(options) = <<>> <=> Len(options) = 0
<1> DEFINE n == Min({6, Len(options)})
<1>1. Len(options) \in Nat
  BY ListLen
<1>2. n \in Nat /\ n <= Len(options) /\ n \in {6, Len(options)}
  BY <1>1, MinTwo
<1>3. Shown(options) = SubSeq(options, 1, n)
  BY DEF Shown
<1> HIDE DEF n
<1>4. IsList(Shown(options)) /\ Len(Shown(options)) = n
  BY <1>2, <1>3, FirstFew
<1>5. Shown(options) = <<>> <=> n = 0
  BY <1>4, ListLen
<1> QED
  BY <1>1, <1>2, <1>4, <1>5

\* What the model is told begins the cards.
CardsTold(kind) ==
    /\ IsList(cards[kind])
    /\ IsPrefix(told[kind], cards[kind])
    /\ Len(told[kind]) = Min({5, Len(cards[kind])})

\* The model is told the first five of the cards.
LEMMA SlimIs ==
    ASSUME NEW found, NEW shown, IsList(shown)
    PROVE  /\ IsPrefix(Slim(found, shown), shown)
           /\ Len(Slim(found, shown)) = Min({5, Len(shown)})
<1> DEFINE n == Min({5, Len(shown)})
<1>1. Len(shown) \in Nat
  BY ListLen
<1>2. n \in Nat /\ n <= Len(shown)
  BY <1>1, MinTwo
<1>3. Slim(found, shown) = SubSeq(shown, 1, n)
  BY DEF Slim
<1> HIDE DEF n
<1>4. IsPrefix(SubSeq(shown, 1, n), shown) /\ Len(SubSeq(shown, 1, n)) = n
  BY <1>2, FirstFew
<1> QED
  BY <1>3, <1>4 DEF n

\* Sorting neither drops an option nor adds one.
LEMMA OrderedIs ==
    ASSUME NEW options, IsList(options), NEW field, NEW descending
    PROVE  /\ IsList(Ordered(options, field, descending))
           /\ Len(Ordered(options, field, descending)) = Len(options)
<1> DEFINE missing == {i \in DOMAIN options : options[i][field] = None}
           S == DOMAIN options \ missing
           e == Ranked(options, S, field, descending)
           m == Only(options, missing)
           c == Cardinality(S)
<1>1. Len(options) \in Nat /\ DOMAIN options = 1 .. Len(options)
  BY ListLen
<1>2. Ordered(options, field, descending) = e \o m
  BY DEF Ordered
<1>3. IsFiniteSet(DOMAIN options) /\ Cardinality(DOMAIN options) = Len(options)
  <2>1. 1 \in Int /\ Len(options) \in Int
    BY <1>1
  <2>2. IsFiniteSet(1 .. Len(options))
        /\ Cardinality(1 .. Len(options)) = IF 1 > Len(options) THEN 0 ELSE Len(options) - 1 + 1
    BY <2>1, FS_Interval
  <2> QED
    BY <1>1, <2>2
<1>4. IsFiniteSet(missing) /\ IsFiniteSet(S)
  BY <1>3, FS_Subset
<1>5. c + Cardinality(missing) = Len(options) /\ c \in Nat /\ Cardinality(missing) \in Nat
  <2>1. missing \cap S = {} /\ missing \cup S = DOMAIN options
    OBVIOUS
  <2> HIDE DEF missing, S
  <2>2. Cardinality(missing \cup S) = Cardinality(missing) + Cardinality(S) - Cardinality(missing \cap S)
    BY <1>4, FS_Union
  <2>3. Cardinality({}) = 0
    BY FS_EmptySet
  <2>4. c \in Nat /\ Cardinality(missing) \in Nat
    BY <1>4, FS_CardinalityType
  <2>5. Cardinality(missing \cap S) = 0
    BY <2>1, <2>3, Zenon
  <2>6. Cardinality(missing \cup S) = Len(options)
    BY <1>3, <2>1, Zenon
  <2> QED
    BY <2>2, <2>4, <2>5, <2>6
<1> HIDE DEF S, missing
<1>6. DOMAIN e = 1 .. c /\ e = [n \in 1 .. c |-> e[n]]
  BY DEF Ranked, Arranged
<1> HIDE DEF e
<1>7. IsList(e)
  BY <1>5, <1>6 DEF IsList
<1>8. Len(e) = c
  <2>1. Len(e) \in Nat /\ 1 .. c = 1 .. Len(e)
    BY <1>6, <1>7, ListLen
  <2> HIDE DEF c
  <2> QED
    BY <1>5, <2>1
<1>9. IsList(m) /\ Len(m) = Cardinality(missing)
  BY <1>4, ArrangedOnly
<1> DEFINE X == ToSet(e) \cup ToSet(m)
<1> HIDE DEF m
<1>10. e \in Seq(X) /\ m \in Seq(X)
  <2>1. e \in Seq(ToSet(e)) /\ m \in Seq(ToSet(m))
    BY <1>7, <1>9, ListLen
  <2>2. ToSet(e) \subseteq X /\ ToSet(m) \subseteq X
    OBVIOUS
  <2> HIDE DEF X
  <2> QED
    BY <2>1, <2>2, SeqMonotonic
<1> HIDE DEF X
<1>11. e \o m \in Seq(X) /\ Len(e \o m) = Len(e) + Len(m)
  BY <1>10, ConcatProperties
<1>12. IsList(e \o m)
  BY <1>11, SeqIsList
<1> QED
  BY <1>2, <1>5, <1>8, <1>9, <1>11, <1>12

\* So does the order a tool asks for.
LEMMA SortedIs ==
    ASSUME NEW options, IsList(options), NEW sorts, NEW requested
    PROVE  /\ IsList(Sorted(options, sorts, requested))
           /\ Len(Sorted(options, sorts, requested)) = Len(options)
BY OrderedIs DEF Sorted

\* What a search answers is a list.
LEMMA AnswersAreLists ==
    ASSUME NEW leg \in Legs, NEW nights \in Int, NEW found \in AnswersOf(leg, nights), found # Failed
    PROVE  IsList(found)
<1>1. found = <<>> \/ found \in Said(leg, nights)
  BY DEF AnswersOf
<1>2. found \in Seq(Option(leg))
  BY <1>1, SaidTyped, EmptySeq
<1> QED
  BY <1>2, SeqIsList

\* The cards of a search are empty exactly if it has found nothing.
LEMMA FoundShown ==
    ASSUME NEW leg \in Legs, NEW nights \in Int, NEW found \in AnswersOf(leg, nights), found # Failed,
           NEW sorts, NEW requested
    PROVE  /\ IsList(Shown(Sorted(found, sorts, requested)))
           /\ Shown(Sorted(found, sorts, requested)) = <<>> <=> found = <<>>
           /\ IsList(Shown(found))
<1>1. IsList(found)
  BY AnswersAreLists
<1>2. found = <<>> <=> Len(found) = 0
  BY <1>1, ListLen
<1>3. IsList(Sorted(found, sorts, requested)) /\ Len(Sorted(found, sorts, requested)) = Len(found)
  BY <1>1, SortedIs
<1> QED
  BY <1>1, <1>2, <1>3, ShownIs

-----------------------------------------------------------------------------
(* What is booked *)

\* A booking adds its amount to the bill.
LEMMA OwedIs ==
    ASSUME NEW b \in Seq(Nat), NEW a \in Nat
    PROVE  /\ SumFunction(b) \in Nat
           /\ Append(b, a) \in Seq(Nat) /\ Append(b, a) # <<>>
           /\ SumFunction(Append(b, a)) = SumFunction(b) + a
<1> DEFINE n == Len(b)
           t == Append(b, a)
           D == 1 .. n
           E == 1 .. n + 1
<1>1. n \in Nat /\ DOMAIN b = D /\ \A i \in D : b[i] \in Nat
  BY LenProperties, ElementOfSeq
<1>2. t \in Seq(Nat) /\ t # <<>> /\ Len(t) = n + 1 /\ (\A i \in D : t[i] = b[i]) /\ t[n + 1] = a
  BY AppendProperties
<1> HIDE DEF t
<1>3. DOMAIN t = E
  BY <1>2, LenProperties
<1>4. IsFiniteSet(D) /\ IsFiniteSet(E)
  <2> DEFINE k == n + 1
  <2>1. 1 \in Int /\ n \in Int /\ k \in Int
    BY <1>1
  <2> HIDE DEF n, k
  <2> QED
    BY <2>1, FS_Interval DEF k
<1>5. n + 1 \in E /\ E \ {n + 1} = D /\ D \subseteq E
  BY <1>1
<1>6. \A i \in E : t[i] \in Nat
  BY <1>1, <1>2
<1> DEFINE k == n + 1
<1>7. k \in E /\ E \ {k} = D /\ t[k] = a
  BY <1>2, <1>5
<1> HIDE DEF D, E, k
<1>8. SumFunctionOnSet(t, E) = t[k] + SumFunctionOnSet(t, E \ {k})
  <2>1. \A i \in E : t[i] \in Int
    BY <1>6
  <2> QED
    BY <1>4, <1>7, <2>1, SumElement
<1>9. SumFunctionOnSet(t, D) = SumFunctionOnSet(b, D)
  BY <1>2, <1>4, SumSame
<1>10. SumFunctionOnSet(b, D) \in Nat
  <2>1. Nat \in {Int, Nat} /\ \A i \in D : b[i] \in Nat
    BY <1>1
  <2> QED
    BY <1>4, <2>1, SumType
<1>11. SumFunction(b) = SumFunctionOnSet(b, D) /\ SumFunction(t) = SumFunctionOnSet(t, E)
  BY <1>1, <1>3 DEF SumFunction
<1>12. SumFunctionOnSet(t, E) = a + SumFunctionOnSet(b, D)
  BY <1>7, <1>8, <1>9
<1>13. SumFunction(b) \in Nat /\ SumFunction(t) = SumFunction(b) + a
  BY <1>10, <1>11, <1>12
<1> QED
  BY <1>2, <1>13 DEF t

\* An empty bill owes nothing.
LEMMA OwedNothing == SumFunction(<<>>) = 0
<1>1. DOMAIN <<>> = {}
  OBVIOUS
<1>2. SumFunctionOnSet(<<>>, {}) = 0
  BY SumFirst, FS_EmptySet
<1> QED
  BY <1>1, <1>2 DEF SumFunction

-----------------------------------------------------------------------------
(* The invariant of a turn *)

Message == [role : {"user", "assistant"}, text : {Blank} \cup Words]

\* While a turn runs, what the guest said is something.
HistorySound ==
    /\ history \in Seq(Message)
    /\ pc \in Turning => history \in Seq([role : {"user", "assistant"}, text : Words])

WindowsSound ==
    /\ windows = [kind \in {"flight", "hotel"} |-> windows[kind]]
    /\ WindowsOrdered
    /\ pc = "idle" => \A kind \in {"flight", "hotel"} : windows[kind] = None

Kinds == {"flight", "hotel", "restaurant"}

CardsSound ==
    /\ cards = [kind \in Kinds |-> cards[kind]]
    /\ told = [kind \in Kinds |-> told[kind]]
    /\ pc \in {"idle"} \cup Turning => \A kind \in Kinds : CardsTold(kind)
    /\ pc = "idle" => \A kind \in Kinds : cards[kind] = <<>>

CallsSound == pc = "tool" => calls \in Seq(ToolCall) /\ calls # <<>>

BillSound ==
    /\ pc \in {"idle"} \cup Turning =>
           /\ bill \in Seq(Nat) /\ Owed <= Opening
           /\ booked = None <=> bill = <<>>
    /\ pc = "idle" => bill = <<>>
    /\ pc # "answered" => balance = Opening /\ reply = None

\* What has been replied, from what was shown and booked.
ReplySound ==
    pc = "answered" /\ reply # None =>
        /\ \A kind \in Kinds :
               \/ CardsTold(kind)
               \/ /\ kind = "flight" /\ Latest.route = "known"
                  /\ reply = "found" <=> cards[kind] # <<>>
        /\ reply = "found" => cards["flight"] # <<>>
        /\ reply = "clarify" => \A kind \in Kinds : cards[kind] = <<>>
        /\ booked = None <=> bill = <<>>
        /\ balance = Opening - Owed /\ balance >= 0

TurnInv ==
    endpoint = "chat" =>
        /\ HistorySound
        /\ WindowsSound
        /\ CardsSound
        /\ CallsSound
        /\ BillSound
        /\ ReplySound

\* The invariant of a turn implies that its reply is truthful.
LEMMA ReplyFollows == TurnInv => ReplyTruthful
<1> SUFFICES ASSUME TurnInv, endpoint = "chat" PROVE ReplyTruthful
  BY DEF ReplyTruthful
<1>1. WindowsOrdered
  BY DEF TurnInv, WindowsSound
<1>2. CardsSound /\ BillSound /\ ReplySound
  BY DEF TurnInv
<1>3. DOMAIN cards = Kinds
  BY <1>2 DEF CardsSound
<1>4. pc # "answered" => balance = Opening
  BY <1>2 DEF BillSound
<1>5. \A kind : CardsTold(kind) =>
          IsPrefix(told[kind], cards[kind]) /\ Len(told[kind]) = Min({5, Len(cards[kind])})
  BY DEF CardsTold
<1>6. ASSUME pc = "answered", reply # None
      PROVE  /\ \A kind \in DOMAIN cards :
                     \/ /\ IsPrefix(told[kind], cards[kind])
                        /\ Len(told[kind]) = Min({5, Len(cards[kind])})
                     \/ /\ kind = "flight" /\ Latest.route = "known"
                        /\ reply = "found" <=> cards[kind] # <<>>
             /\ reply = "found" => cards["flight"] # <<>>
             /\ reply = "clarify" => \A kind \in DOMAIN cards : cards[kind] = <<>>
             /\ booked = None <=> bill = <<>>
             /\ balance = Opening - Owed /\ balance >= 0
  BY <1>2, <1>3, <1>5, <1>6 DEF ReplySound
<1> QED
  BY <1>1, <1>4, <1>6 DEF ReplyTruthful

-----------------------------------------------------------------------------
(* What is read in the messages *)

\* The last of a finite set of indices is one of them.
LEMMA MaxIndex ==
    ASSUME NEW S, S \subseteq Nat, IsFiniteSet(S), S # {}
    PROVE  Max(S) \in S
<1>1. \E x \in S : \A y \in S : x >= y
  <2>1. PICK x \in S : \A y \in S : y <= x
    BY GreatestNat
  <2> QED
    BY <2>1
<1> QED
  BY <1>1 DEF Max

\* The guest's words have a day or none.
LEMMA LatestIs ==
    ASSUME history \in Seq([role : {"user", "assistant"}, text : Words])
    PROVE  Latest.day # None => Latest.day \in Int
<1> DEFINE S == Users(history)
           X == [role : {"user", "assistant"}, text : Words]
<1>1. /\ Len(history) \in Nat /\ DOMAIN history = 1 .. Len(history)
      /\ \A i \in DOMAIN history : history[i] \in X
  <2> HIDE DEF X
  <2> QED
    BY LenProperties, ElementOfSeq DEF X
<1>2. S \subseteq DOMAIN history
  BY DEF Users
<1>3. CASE S = {}
  BY <1>3 DEF Latest, Silence
<1>4. CASE S # {}
  <2>1. 1 \in Int /\ Len(history) \in Int
    BY <1>1
  <2>2. IsFiniteSet(1 .. Len(history))
    BY <2>1, FS_Interval
  <2> HIDE DEF S
  <2>3. S \in SUBSET (1 .. Len(history))
    BY <1>1, <1>2
  <2>4. IsFiniteSet(S) /\ S \subseteq Nat
    <3>1. IsFiniteSet(S)
      BY <2>2, <2>3, FS_Subset
    <3>2. S \subseteq Nat
      BY <1>1, <2>3
    <3> QED
      BY <3>1, <3>2
  <2>5. Max(S) \in S
    BY <1>4, <2>4, MaxIndex
  <2>6. history[Max(S)] \in X
    BY <1>1, <1>2, <2>5
  <2>7. Latest = history[Max(S)].text
    BY <1>4 DEF Latest, S
  <2>8. Latest \in Words
    BY <2>6, <2>7
  <2> QED
    BY <2>8 DEF Words, Number
<1> QED
  BY <1>3, <1>4

\* A search leaves before it returns, on a day that is over only if the guest named it.
DaysOrdered(w) ==
    w # None => /\ w.to # None => w.from < w.to
                /\ w.from >= 0 \/ w.from = Latest.day

\* A day that is read is not over.
LEMMA CoerceIs ==
    ASSUME NEW day \in Date, NEW default \in Nat
    PROVE  CoerceDay(day, default) \in Nat
BY DEF CoerceDay, Date

\* Nor is the day a search begins, unless the guest named it.
LEMMA FirstDayIs ==
    ASSUME NEW day \in Date, Latest.day # None => Latest.day \in Int
    PROVE  /\ FirstDay(day) \in Int
           /\ FirstDay(day) >= 0 \/ FirstDay(day) = Latest.day
<1>1. CoerceDay(day, 14) \in Nat
  BY CoerceIs
<1> QED
  BY <1>1 DEF FirstDay

\* A flight leaves before it returns.
LEMMA FlightWindowIs ==
    ASSUME NEW call, call.from \in Date, call.to \in Date, Latest.day # None => Latest.day \in Int
    PROVE  DaysOrdered(FlightWindow(call))
<1> DEFINE from == FirstDay(call.from)
           to == CoerceDay(call.to, 21)
           end == IF call.to = None THEN None ELSE IF to <= from THEN from + 7 ELSE to
<1>1. from \in Int /\ (from >= 0 \/ from = Latest.day)
  BY FirstDayIs
<1>2. to \in Nat
  BY CoerceIs
<1>3. FlightWindow(call) = [from |-> from, to |-> end]
  BY DEF FlightWindow
<1> HIDE DEF from, to
<1>4. end # None => from < end
  BY <1>1, <1>2
<1> HIDE DEF end
<1> QED
  BY <1>1, <1>3, <1>4 DEF DaysOrdered

\* A stay has a night.
LEMMA HotelWindowIs ==
    ASSUME NEW call, call.from \in Date, call.to \in Date, Latest.day # None => Latest.day \in Int
    PROVE  DaysOrdered(HotelWindow(call)) /\ HotelWindow(call).from \in Int /\ HotelWindow(call).to \in Int
<1> DEFINE from == FirstDay(call.from)
           to == CoerceDay(call.to, 17)
           end == IF to <= from THEN from + 3 ELSE to
<1>1. from \in Int /\ (from >= 0 \/ from = Latest.day)
  BY FirstDayIs
<1>2. to \in Nat
  BY CoerceIs
<1>3. HotelWindow(call) = [from |-> from, to |-> end]
  BY DEF HotelWindow
<1> HIDE DEF from, to
<1>4. from < end /\ end \in Int
  BY <1>1, <1>2
<1> HIDE DEF end
<1> QED
  BY <1>1, <1>3, <1>4 DEF DaysOrdered

-----------------------------------------------------------------------------
(* The parts a step of a turn does not disturb *)

\* What the guest said last stays while the messages stay.
LEMMA LatestFrame == ASSUME history' = history PROVE Latest' = Latest
BY DEF Latest

\* So do days in their order.
LEMMA DaysFrame == ASSUME history' = history, NEW w PROVE DaysOrdered(w) => DaysOrdered(w)'
BY LatestFrame DEF DaysOrdered

\* The windows are those of flights and hotels.
LEMMA WindowsAre ==
    ASSUME windows = [kind \in {"flight", "hotel"} |-> windows[kind]]
    PROVE  WindowsOrdered <=> DaysOrdered(windows["flight"]) /\ DaysOrdered(windows["hotel"])
<1>1. DOMAIN windows = {"flight", "hotel"}
  OBVIOUS
<1> QED
  BY <1>1 DEF WindowsOrdered, DaysOrdered

\* Windows stay in their order while nothing is searched for.
LEMMA WindowsFrame ==
    ASSUME WindowsSound, windows' = windows, history' = history, pc' # "idle"
    PROVE  WindowsSound'
<1>1. DaysOrdered(windows["flight"]) /\ DaysOrdered(windows["hotel"])
  BY WindowsAre DEF WindowsSound
<1>2. PICK a : a = windows["flight"]
  OBVIOUS
<1>3. PICK b : b = windows["hotel"]
  OBVIOUS
<1>4. DaysOrdered(a)' /\ DaysOrdered(b)'
  BY <1>1, <1>2, <1>3, DaysFrame
<1>5. windows' = [kind \in {"flight", "hotel"} |-> windows'[kind]]
  BY DEF WindowsSound
<1>6. WindowsOrdered'
  <2>1. DOMAIN windows' = {"flight", "hotel"} /\ windows'["flight"] = a /\ windows'["hotel"] = b
    BY <1>2, <1>3, <1>5
  <2> QED
    BY <1>4, <2>1 DEF WindowsOrdered, DaysOrdered
<1> QED
  BY <1>5, <1>6 DEF WindowsSound

\* A search sets the days of its kind.
LEMMA WindowSet ==
    ASSUME WindowsSound, NEW k \in {"flight", "hotel"}, NEW w, DaysOrdered(w),
           windows' = [windows EXCEPT ![k] = w], history' = history, pc' # "idle"
    PROVE  WindowsSound'
<1>1. DaysOrdered(windows["flight"]) /\ DaysOrdered(windows["hotel"])
  BY WindowsAre DEF WindowsSound
<1>2. PICK a : a = IF k = "flight" THEN w ELSE windows["flight"]
  OBVIOUS
<1>3. PICK b : b = IF k = "hotel" THEN w ELSE windows["hotel"]
  OBVIOUS
<1>4. DaysOrdered(a)' /\ DaysOrdered(b)'
  <2>1. DaysOrdered(a) /\ DaysOrdered(b)
    BY <1>1, <1>2, <1>3
  <2> QED
    BY <2>1, DaysFrame
<1>5. windows = [kind \in {"flight", "hotel"} |-> windows[kind]]
  BY DEF WindowsSound
<1>6. /\ windows' = [kind \in {"flight", "hotel"} |-> windows'[kind]]
      /\ windows'["flight"] = a /\ windows'["hotel"] = b
  BY <1>2, <1>3, <1>5
<1>7. WindowsOrdered'
  <2>1. DOMAIN windows' = {"flight", "hotel"}
    BY <1>6
  <2> QED
    BY <1>4, <1>6, <2>1 DEF WindowsOrdered, DaysOrdered
<1> QED
  BY <1>6, <1>7 DEF WindowsSound

\* Cards stay told while neither changes.
LEMMA ToldFrame ==
    ASSUME UNCHANGED <<cards, told>>, NEW kind, CardsTold(kind)
    PROVE  CardsTold(kind)'
BY DEF CardsTold

\* So do the cards of all kinds.
LEMMA CardsFrame ==
    ASSUME CardsSound, pc \in Turning, UNCHANGED <<cards, told>>, pc' # "idle"
    PROVE  CardsSound'
<1>1. \A kind \in Kinds : CardsTold(kind)'
  BY ToldFrame DEF CardsSound
<1> QED
  BY <1>1 DEF CardsSound

\* A search that is told shows the cards it tells of.
LEMMA CardsSet ==
    ASSUME CardsSound, pc \in Turning, NEW k \in Kinds, NEW found, NEW shown, IsList(shown),
           cards' = [cards EXCEPT ![k] = shown], told' = [told EXCEPT ![k] = Slim(found, shown)],
           pc' # "idle"
    PROVE  CardsSound'
<1>1. cards = [kind \in Kinds |-> cards[kind]] /\ told = [kind \in Kinds |-> told[kind]]
  BY DEF CardsSound
<1>2. /\ cards' = [kind \in Kinds |-> cards'[kind]]
      /\ told' = [kind \in Kinds |-> told'[kind]]
      /\ cards'[k] = shown /\ told'[k] = Slim(found, shown)
      /\ \A kind \in Kinds : kind # k => cards'[kind] = cards[kind] /\ told'[kind] = told[kind]
  BY <1>1
<1>3. CardsTold(k)'
  BY <1>2, SlimIs DEF CardsTold
<1>4. ASSUME NEW kind \in Kinds, kind # k PROVE CardsTold(kind)'
  <2>1. CardsTold(kind)
    BY DEF CardsSound
  <2>2. cards'[kind] = cards[kind] /\ told'[kind] = told[kind]
    BY <1>2, <1>4
  <2> QED
    BY <2>1, <2>2 DEF CardsTold
<1> QED
  BY <1>2, <1>3, <1>4 DEF CardsSound

\* A bill stays covered while nothing is booked.
LEMMA BillFrame ==
    ASSUME BillSound, pc \in Turning, UNCHANGED <<bill, booked, balance, reply>>, pc' \in Turning
    PROVE  BillSound'
<1>1. Owed' = Owed
  BY DEF Owed
<1> QED
  BY <1>1 DEF BillSound, Turning

\* What can be paid is booked.
LEMMA RecordStep ==
    ASSUME BillSound, pc \in Turning, NEW amount \in Nat,
           NEW kind \in {"book_flight", "book_hotel", "book_restaurant"},
           amount <= balance - Owed, Record(kind, amount), UNCHANGED <<balance, reply>>, pc' \in Turning
    PROVE  BillSound'
<1>1. bill \in Seq(Nat) /\ Owed <= Opening /\ balance = Opening /\ reply = None
  BY DEF BillSound, Turning
<1>2. bill' = Append(bill, amount) /\ booked' = kind
  BY DEF Record
<1>3. /\ Owed \in Nat /\ bill' \in Seq(Nat) /\ bill' # <<>> /\ Owed' = Owed + amount
  BY <1>1, <1>2, OwedIs DEF Owed
<1>4. Owed' <= Opening
  BY <1>1, <1>3, PlannerAssumption
<1>5. booked' # None
  BY <1>2, ConciergeAssumption
<1> QED
  BY <1>1, <1>3, <1>4, <1>5 DEF BillSound, Turning

-----------------------------------------------------------------------------
(* The steps of a turn *)

\* What every step of a turn finds.
LEMMA TurnHas ==
    ASSUME TurnInv, endpoint = "chat", pc \in Turning
    PROVE  /\ history \in Seq(Message)
           /\ history \in Seq([role : {"user", "assistant"}, text : Words])
           /\ Latest.day # None => Latest.day \in Int
           /\ WindowsSound /\ CardsSound /\ CallsSound /\ BillSound
BY LatestIs DEF TurnInv, HistorySound

\* What a step of a turn has to show.
LEMMA TurnBuilt ==
    ASSUME endpoint' = "chat", history' = history, pc \in Turning, HistorySound,
           WindowsSound', CardsSound', CallsSound', BillSound', pc' \in Turning
    PROVE  TurnInv'
<1>1. HistorySound'
  BY DEF HistorySound
<1>2. ReplySound'
  BY DEF ReplySound, Turning
<1> QED
  BY <1>1, <1>2 DEF TurnInv

\* A tool is called with what the model may call it with.
LEMMA NextCallIs ==
    ASSUME TurnInv, endpoint = "chat", NextCall
    PROVE  /\ pc = "tool" /\ pc \in Turning /\ pc' \in Turning /\ pc' # "idle"
           /\ UNCHANGED <<endpoint, balance, history, reply>>
           /\ Head(calls) \in ToolCall
           /\ CallsSound'
<1>1. pc = "tool" /\ calls' = Tail(calls) /\ pc' = IF calls' = <<>> THEN "model" ELSE "tool"
  BY DEF NextCall
<1>2. calls \in Seq(ToolCall) /\ calls # <<>>
  BY <1>1 DEF TurnInv, CallsSound
<1>3. Head(calls) \in ToolCall /\ Tail(calls) \in Seq(ToolCall)
  <2> DEFINE T == ToolCall
  <2> HIDE DEF T
  <2>1. calls \in Seq(T)
    BY <1>2 DEF T
  <2>2. Head(calls) \in T /\ Tail(calls) \in Seq(T)
    BY <1>2, <2>1, HeadTailProperties
  <2> QED
    BY <2>2 DEF T
<1>4. UNCHANGED <<endpoint, balance, history, reply>>
  BY DEF NextCall, plannerVars, request
<1> QED
  BY <1>1, <1>3, <1>4 DEF CallsSound, Turning

\* The days of a search, of what the model may call.
LEMMA CallDays ==
    ASSUME NEW call \in ToolCall, call.tool \in {"search_flights", "search_hotels"}
    PROVE  call.from \in Date /\ call.to \in Date
BY DEF ToolCall

\* _tool_search_flights tells the model of the cards it shows.
LEMMA SearchFlightsStep ==
    ASSUME TurnInv, endpoint = "chat", SearchFlights
    PROVE  TurnInv'
<1> DEFINE call == Head(calls)
<1>1. NextCall /\ call.tool = "search_flights" /\ UNCHANGED <<bill, booked>>
  BY DEF SearchFlights
<1>2. /\ pc \in Turning /\ pc' \in Turning /\ pc' # "idle"
      /\ UNCHANGED <<endpoint, balance, history, reply>> /\ call \in ToolCall /\ CallsSound'
  BY <1>1, NextCallIs
<1>3. /\ WindowsSound /\ CardsSound /\ BillSound /\ HistorySound
      /\ Latest.day # None => Latest.day \in Int
  BY <1>2, TurnHas DEF TurnInv
<1>4. BillSound'
  BY <1>1, <1>2, <1>3, BillFrame
<1>5. WindowsSound' /\ CardsSound'
  <2>1. CASE UNCHANGED <<cards, told, windows>>
    BY <1>2, <1>3, <2>1, WindowsFrame, CardsFrame
  <2>2. ASSUME NEW found \in AnswersOf("flight", 1),
               windows' = [windows EXCEPT !.flight = FlightWindow(call)],
               IF found = Failed THEN UNCHANGED <<cards, told>>
               ELSE LET shown == Shown(Sorted(found, FlightSorts, call.sort))
                    IN  /\ cards' = [cards EXCEPT !.flight = shown]
                        /\ told' = [told EXCEPT !.flight = Slim(found, shown)]
        PROVE  WindowsSound' /\ CardsSound'
    <3> DEFINE w == FlightWindow(call)
               shown == Shown(Sorted(found, FlightSorts, call.sort))
    <3>1. DaysOrdered(w)
      <4>1. call.from \in Date /\ call.to \in Date
        BY <1>1, <1>2, CallDays
      <4> HIDE DEF call
      <4> QED
        BY <1>3, <4>1, FlightWindowIs
    <3>2. WindowsSound'
      <4>1. windows' = [windows EXCEPT !["flight"] = w]
        BY <2>2
      <4> HIDE DEF w
      <4> QED
        BY <1>2, <1>3, <3>1, <4>1, WindowSet
    <3>3. CASE found = Failed
      BY <1>2, <1>3, <2>2, <3>2, <3>3, CardsFrame
    <3>4. CASE found # Failed
      <4>1. IsList(shown)
        BY <3>4, FoundShown DEF Legs
      <4>2. /\ cards' = [cards EXCEPT !["flight"] = shown]
            /\ told' = [told EXCEPT !["flight"] = Slim(found, shown)]
        BY <2>2, <3>4
      <4> HIDE DEF shown
      <4>3. "flight" \in Kinds
        BY DEF Kinds
      <4> QED
        BY <1>2, <1>3, <3>2, <4>1, <4>2, <4>3, CardsSet
    <3> QED
      BY <3>3, <3>4
  <2> QED
    BY <2>1, <2>2 DEF SearchFlights
<1> QED
  BY <1>2, <1>3, <1>4, <1>5, TurnBuilt

\* So does _tool_search_hotels, for the nights of its window.
LEMMA SearchHotelsStep ==
    ASSUME TurnInv, endpoint = "chat", SearchHotels
    PROVE  TurnInv'
<1> DEFINE call == Head(calls)
           w == HotelWindow(call)
           nights == Max({w.to - w.from, 1})
<1>1. NextCall /\ call.tool = "search_hotels" /\ UNCHANGED <<bill, booked>>
  BY DEF SearchHotels
<1>2. /\ pc \in Turning /\ pc' \in Turning /\ pc' # "idle"
      /\ UNCHANGED <<endpoint, balance, history, reply>> /\ call \in ToolCall /\ CallsSound'
  BY <1>1, NextCallIs
<1>3. /\ WindowsSound /\ CardsSound /\ BillSound /\ HistorySound
      /\ Latest.day # None => Latest.day \in Int
  BY <1>2, TurnHas DEF TurnInv
<1>4. BillSound'
  BY <1>1, <1>2, <1>3, BillFrame
<1>5. DaysOrdered(w) /\ w.from \in Int /\ w.to \in Int
  <2>1. call.from \in Date /\ call.to \in Date
    BY <1>1, <1>2, CallDays
  <2> HIDE DEF call
  <2> QED
    BY <1>3, <2>1, HotelWindowIs
<1>6. nights \in Int
  <2> HIDE DEF w
  <2>1. w.to - w.from \in Int /\ 1 \in Int
    BY <1>5
  <2> QED
    BY <2>1, MaxTwo
<1>7. WindowsSound' /\ CardsSound'
  <2>1. CASE UNCHANGED <<cards, told, windows>>
    BY <1>2, <1>3, <2>1, WindowsFrame, CardsFrame
  <2>2. ASSUME NEW found \in AnswersOf("hotel", nights),
               windows' = [windows EXCEPT !.hotel = w],
               IF found = Failed THEN UNCHANGED <<cards, told>>
               ELSE LET shown == Shown(Sorted(found, HotelSorts, call.sort))
                    IN  /\ cards' = [cards EXCEPT !.hotel = shown]
                        /\ told' = [told EXCEPT !.hotel = Slim(found, shown)]
        PROVE  WindowsSound' /\ CardsSound'
    <3> DEFINE shown == Shown(Sorted(found, HotelSorts, call.sort))
    <3> HIDE DEF nights
    <3>1. WindowsSound'
      <4>1. windows' = [windows EXCEPT !["hotel"] = w]
        BY <2>2
      <4> HIDE DEF w
      <4> QED
        BY <1>2, <1>3, <1>5, <4>1, WindowSet
    <3>2. CASE found = Failed
      BY <1>2, <1>3, <2>2, <3>1, <3>2, CardsFrame
    <3>3. CASE found # Failed
      <4>1. IsList(shown)
        BY <1>6, <3>3, FoundShown DEF Legs
      <4>2. /\ cards' = [cards EXCEPT !["hotel"] = shown]
            /\ told' = [told EXCEPT !["hotel"] = Slim(found, shown)]
        BY <2>2, <3>3
      <4> HIDE DEF shown
      <4>3. "hotel" \in Kinds
        BY DEF Kinds
      <4> QED
        BY <1>2, <1>3, <3>1, <4>1, <4>2, <4>3, CardsSet
    <3> QED
      BY <3>2, <3>3
  <2> QED
    BY <2>1, <2>2 DEF SearchHotels
<1> QED
  BY <1>2, <1>3, <1>4, <1>7, TurnBuilt

\* So does _tool_search_restaurants.
LEMMA SearchRestaurantsStep ==
    ASSUME TurnInv, endpoint = "chat", SearchRestaurants
    PROVE  TurnInv'
<1>1. NextCall /\ UNCHANGED <<windows, bill, booked>>
  BY DEF SearchRestaurants
<1>2. /\ pc \in Turning /\ pc' \in Turning /\ pc' # "idle"
      /\ UNCHANGED <<endpoint, balance, history, reply>> /\ CallsSound'
  BY <1>1, NextCallIs
<1>3. WindowsSound /\ CardsSound /\ BillSound /\ HistorySound
  BY <1>2, TurnHas DEF TurnInv
<1>4. BillSound' /\ WindowsSound'
  BY <1>1, <1>2, <1>3, BillFrame, WindowsFrame
<1>5. ASSUME NEW found \in AnswersOf("restaurant", 1),
             IF found = Failed THEN UNCHANGED <<cards, told>>
             ELSE /\ cards' = [cards EXCEPT !.restaurant = Shown(found)]
                  /\ told' = [told EXCEPT !.restaurant = Slim(found, Shown(found))]
      PROVE  CardsSound'
  <2>1. CASE found = Failed
    BY <1>2, <1>3, <1>5, <2>1, CardsFrame
  <2>2. CASE found # Failed
    <3> DEFINE shown == Shown(found)
    <3>1. IsList(shown)
      BY <2>2, FoundShown DEF Legs
    <3>2. /\ cards' = [cards EXCEPT !["restaurant"] = shown]
          /\ told' = [told EXCEPT !["restaurant"] = Slim(found, shown)]
      BY <1>5, <2>2
    <3> HIDE DEF shown
    <3>3. "restaurant" \in Kinds
      BY DEF Kinds
    <3> QED
      BY <1>2, <1>3, <3>1, <3>2, <3>3, CardsSet
  <2> QED
    BY <2>1, <2>2
<1>6. CardsSound'
  BY <1>5 DEF SearchRestaurants
<1> QED
  BY <1>2, <1>3, <1>4, <1>6, TurnBuilt

\* A booking is made only of what the balance still covers.
LEMMA BookPricedStep ==
    ASSUME TurnInv, endpoint = "chat", BookPriced
    PROVE  TurnInv'
<1> DEFINE call == Head(calls)
<1>1. /\ NextCall /\ UNCHANGED <<cards, told, windows>>
      /\ call.tool \in {"book_flight", "book_hotel"} /\ call.price # Infinite
      /\ IF call.price # Junk /\ call.price >= 0 /\ call.price <= balance - Owed
         THEN Record(call.tool, call.price) ELSE UNCHANGED <<bill, booked>>
  BY DEF BookPriced
<1>2. /\ pc \in Turning /\ pc' \in Turning /\ pc' # "idle"
      /\ UNCHANGED <<endpoint, balance, history, reply>> /\ call \in ToolCall /\ CallsSound'
  BY <1>1, NextCallIs
<1>3. WindowsSound /\ CardsSound /\ BillSound /\ HistorySound
  BY <1>2, TurnHas DEF TurnInv
<1>4. WindowsSound' /\ CardsSound'
  BY <1>1, <1>2, <1>3, WindowsFrame, CardsFrame
<1>5. CASE UNCHANGED <<bill, booked>>
  BY <1>2, <1>3, <1>4, <1>5, BillFrame, TurnBuilt
<1>6. CASE /\ call.price # Junk /\ call.price >= 0 /\ call.price <= balance - Owed
           /\ Record(call.tool, call.price)
  <2>1. call.price \in {Junk, Infinite} \cup Int
    BY <1>1, <1>2 DEF ToolCall
  <2>2. call.price \in Nat /\ call.tool \in {"book_flight", "book_hotel", "book_restaurant"}
    <3>1. call.price \in Int
      BY <1>1, <1>6, <2>1
    <3>2. call.price >= 0
      BY <1>6
    <3>3. call.tool \in {"book_flight", "book_hotel", "book_restaurant"}
      BY <1>1
    <3> HIDE DEF call
    <3> QED
      BY <3>1, <3>2, <3>3
  <2> HIDE DEF call
  <2>3. BillSound'
    BY <1>2, <1>3, <1>6, <2>2, RecordStep
  <2> QED
    BY <1>2, <1>3, <1>4, <2>3, TurnBuilt
<1> QED
  BY <1>1, <1>5, <1>6

\* A reservation is booked for nothing.
LEMMA BookRestaurantStep ==
    ASSUME TurnInv, endpoint = "chat", BookRestaurant
    PROVE  TurnInv'
<1>1. NextCall /\ UNCHANGED <<cards, told, windows>> /\ Record("book_restaurant", 0)
  BY DEF BookRestaurant
<1>2. /\ pc \in Turning /\ pc' \in Turning /\ pc' # "idle"
      /\ UNCHANGED <<endpoint, balance, history, reply>> /\ CallsSound'
  BY <1>1, NextCallIs
<1>3. WindowsSound /\ CardsSound /\ BillSound /\ HistorySound
  BY <1>2, TurnHas DEF TurnInv
<1>4. WindowsSound' /\ CardsSound'
  BY <1>1, <1>2, <1>3, WindowsFrame, CardsFrame
<1>5. bill \in Seq(Nat) /\ Owed <= Opening /\ balance = Opening
  BY <1>2, <1>3 DEF BillSound, Turning
<1>6. Owed \in Nat
  BY <1>5, OwedIs DEF Owed
<1>7. 0 <= balance - Owed
  BY <1>5, <1>6, PlannerAssumption
<1>8. BillSound'
  <2>1. "book_restaurant" \in {"book_flight", "book_hotel", "book_restaurant"} /\ 0 \in Nat
    OBVIOUS
  <2>2. Record("book_restaurant", 0) /\ UNCHANGED <<balance, reply>>
    BY <1>1, <1>2
  <2>3. BillSound /\ pc \in Turning /\ pc' \in Turning
    BY <1>2, <1>3
  <2> QED
    BY <1>7, <2>1, <2>2, <2>3, RecordStep
<1> QED
  BY <1>2, <1>3, <1>4, <1>8, TurnBuilt

\* Other tools leave cards, windows and bill alone.
LEMMA OtherToolStep ==
    ASSUME TurnInv, endpoint = "chat", OtherTool
    PROVE  TurnInv'
<1>1. NextCall /\ UNCHANGED <<cards, told, windows, bill, booked>>
  BY DEF OtherTool
<1>2. /\ pc \in Turning /\ pc' \in Turning /\ pc' # "idle"
      /\ UNCHANGED <<endpoint, balance, history, reply>> /\ CallsSound'
  BY <1>1, NextCallIs
<1>3. WindowsSound /\ CardsSound /\ BillSound /\ HistorySound
  BY <1>2, TurnHas DEF TurnInv
<1>4. WindowsSound' /\ CardsSound' /\ BillSound'
  BY <1>1, <1>2, <1>3, WindowsFrame, CardsFrame, BillFrame
<1> QED
  BY <1>2, <1>3, <1>4, TurnBuilt

\* The model's calls are run from the first on.
LEMMA CallToolsStep ==
    ASSUME TurnInv, endpoint = "chat", CallTools
    PROVE  TurnInv'
<1>1. /\ pc = "model" /\ pc' = "tool" /\ calls' \in Batches
      /\ UNCHANGED <<endpoint, balance, history, cards, told, windows, bill, booked, reply>>
  BY DEF CallTools, plannerVars, request
<1>2. pc \in Turning /\ pc' \in Turning
  BY <1>1 DEF Turning
<1>3. WindowsSound /\ CardsSound /\ BillSound /\ HistorySound
  BY <1>2, TurnHas DEF TurnInv
<1>4. WindowsSound' /\ CardsSound' /\ BillSound'
  BY <1>1, <1>2, <1>3, WindowsFrame, CardsFrame, BillFrame
<1>5. CallsSound'
  BY <1>1, ConciergeAssumption DEF CallsSound
<1> QED
  BY <1>1, <1>2, <1>3, <1>4, <1>5, TurnBuilt

\* An error takes the bookings of its turn back.
LEMMA RaiseStep ==
    ASSUME TurnInv, endpoint = "chat", Raise
    PROVE  TurnInv'
<1>1. /\ pc \in Turning /\ pc' = "error"
      /\ UNCHANGED <<endpoint, balance, history, cards, told, windows, booked, reply>>
  BY DEF Raise, plannerVars, request
<1>2. WindowsSound /\ CardsSound /\ BillSound /\ HistorySound
  BY <1>1, TurnHas DEF TurnInv
<1>3. WindowsSound'
  BY <1>1, <1>2, WindowsFrame
<1>4. CardsSound'
  BY <1>1, <1>2, CardsFrame
<1>5. HistorySound' /\ CallsSound' /\ BillSound' /\ ReplySound'
  BY <1>1, <1>2 DEF HistorySound, CallsSound, BillSound, ReplySound, Turning
<1> QED
  BY <1>1, <1>3, <1>4, <1>5 DEF TurnInv

\* The response: what it says of the flights is either what the model was told or what
\* the search after its words has found.
LEMMA ReplyStep ==
    ASSUME TurnInv, endpoint = "chat", pc \in Turning, NEW text, Reply(text),
           text \notin {"clarify"}, cards' = [kind \in Kinds |-> cards'[kind]],
           \A kind \in Kinds : kind # "flight" => cards'[kind] = cards[kind],
           \/ cards'["flight"] = cards["flight"] /\ text # "found"
           \/ Latest.route = "known" /\ (text = "found" <=> cards'["flight"] # <<>>),
           WindowsSound'
    PROVE  TurnInv'
<1>1. /\ pc' = "answered" /\ reply' = text /\ balance' = balance - Owed
      /\ UNCHANGED <<endpoint, history, told, bill, booked>>
  BY DEF Reply, plannerVars, request
<1>2. CardsSound /\ BillSound /\ HistorySound
  BY TurnHas DEF TurnInv
<1>3. HistorySound' /\ CallsSound' /\ BillSound' /\ CardsSound'
  BY <1>1, <1>2 DEF HistorySound, CallsSound, BillSound, CardsSound, Turning
<1>4. bill \in Seq(Nat) /\ Owed <= Opening /\ balance = Opening /\ (booked = None <=> bill = <<>>)
  BY <1>2 DEF BillSound, Turning
<1>5. Owed \in Nat /\ Owed' = Owed
  BY <1>1, <1>4, OwedIs DEF Owed
<1>6. balance' = Opening - Owed' /\ balance' >= 0
  BY <1>1, <1>4, <1>5, PlannerAssumption
<1>7. \A kind \in Kinds : cards'[kind] = cards[kind] => CardsTold(kind)'
  BY <1>1, <1>2 DEF CardsSound, CardsTold
<1>8. Latest' = Latest
  BY <1>1, LatestFrame
<1>9. \A kind \in Kinds :
          \/ CardsTold(kind)'
          \/ /\ kind = "flight" /\ Latest'.route = "known"
             /\ reply' = "found" <=> cards'[kind] # <<>>
  BY <1>1, <1>7, <1>8
<1>10. reply' = "found" => cards'["flight"] # <<>>
  BY <1>1
<1>11. ReplySound'
  BY <1>1, <1>4, <1>6, <1>9, <1>10 DEF ReplySound
<1> QED
  BY <1>1, <1>3, <1>11 DEF TurnInv

\* Words and excuses leave the cards as the model was told of them.
LEMMA SayStep ==
    ASSUME TurnInv, endpoint = "chat", GiveUp \/ Speak
    PROVE  TurnInv'
<1>1. PICK text \in {"excuse", "words"} : Reply(text)
  BY DEF GiveUp, Speak
<1>2. pc \in Turning /\ UNCHANGED <<cards, windows, history>> /\ pc' # "idle"
  BY DEF GiveUp, Speak, Reply, Turning
<1>3. WindowsSound /\ CardsSound
  BY <1>2, TurnHas
<1>4. WindowsSound'
  BY <1>2, <1>3, WindowsFrame
<1>5. cards' = [kind \in Kinds |-> cards'[kind]]
  BY <1>2, <1>3 DEF CardsSound
<1>6. text \notin {"clarify"} /\ text # "found"
  BY <1>1
<1> QED
  BY <1>1, <1>2, <1>4, <1>5, <1>6, ReplyStep

\* _fallback_flight_search counts what it shows in place of what was told.
LEMMA SearchAgainStep ==
    ASSUME TurnInv, endpoint = "chat", SearchAgain
    PROVE  TurnInv'
<1> DEFINE call == [from |-> Junk, to |-> None]
           w == FlightWindow(call)
<1>1. PICK found \in AnswersOf("flight", 1) :
          /\ windows' = [windows EXCEPT !.flight = w]
          /\ cards' = IF found = Failed THEN cards
                      ELSE [cards EXCEPT !.flight = Shown(Sorted(found, FlightSorts, Junk))]
          /\ Reply(IF found \in {Failed, <<>>} THEN "words" ELSE "found")
  BY DEF SearchAgain
<1>2. /\ pc \in Turning /\ Latest.route = "known"
      /\ UNCHANGED history /\ pc' # "idle"
  BY DEF SearchAgain, Reply, Turning
<1>3. WindowsSound /\ CardsSound /\ (Latest.day # None => Latest.day \in Int)
  BY <1>2, TurnHas
<1>4. DaysOrdered(w)
  <2>1. call.from \in Date /\ call.to \in Date
    BY DEF Date
  <2> HIDE DEF call
  <2> QED
    BY <1>3, <2>1, FlightWindowIs
<1>5. WindowsSound'
  <2>1. windows' = [windows EXCEPT !["flight"] = w]
    BY <1>1
  <2> HIDE DEF w
  <2> QED
    BY <1>2, <1>3, <1>4, <2>1, WindowSet
<1>6. cards = [kind \in Kinds |-> cards[kind]] /\ "flight" \in Kinds
  BY <1>3 DEF CardsSound, Kinds
<1>7. PICK text : text = IF found \in {Failed, <<>>} THEN "words" ELSE "found"
  OBVIOUS
<1>8. Reply(text) /\ text \notin {"clarify"}
  BY <1>1, <1>7
<1>9. CASE found = Failed
  <2>1. cards' = cards /\ text # "found"
    BY <1>1, <1>7, <1>9
  <2>2. cards' = [kind \in Kinds |-> cards'[kind]]
    BY <1>6, <2>1
  <2> QED
    BY <1>2, <1>5, <1>8, <2>1, <2>2, ReplyStep
<1>10. CASE found # Failed
  <2> DEFINE shown == Shown(Sorted(found, FlightSorts, Junk))
  <2>1. shown = <<>> <=> found = <<>>
    BY <1>10, FoundShown DEF Legs
  <2>2. cards' = [cards EXCEPT !["flight"] = shown]
    BY <1>1, <1>10
  <2> HIDE DEF shown
  <2>3. /\ cards' = [kind \in Kinds |-> cards'[kind]] /\ cards'["flight"] = shown
        /\ \A kind \in Kinds : kind # "flight" => cards'[kind] = cards[kind]
    BY <1>6, <2>2
  <2>4. text = "found" <=> cards'["flight"] # <<>>
    BY <1>7, <1>10, <2>1, <2>3
  <2> QED
    BY <1>2, <1>5, <1>8, <2>3, <2>4, ReplyStep
<1> QED
  BY <1>9, <1>10

-----------------------------------------------------------------------------
(* Before a turn, and beside it *)

\* A conversation begins with nothing shown, told or booked.
LEMMA TurnInitially == ConciergeInit => TurnInv
<1> SUFFICES ASSUME ConciergeInit, endpoint = "chat"
             PROVE  HistorySound /\ WindowsSound /\ CardsSound /\ CallsSound /\ BillSound /\ ReplySound
  BY DEF TurnInv
<1>1. /\ pc = "idle" /\ balance = Opening /\ history \in Conversations /\ bill = <<>> /\ booked = None
      /\ reply = None /\ cards = [flight |-> <<>>, hotel |-> <<>>, restaurant |-> <<>>] /\ told = cards
      /\ windows = [flight |-> None, hotel |-> None]
  BY DEF ConciergeInit, Init
<1>2. HistorySound
  BY <1>1, ConciergeAssumption DEF HistorySound, Message, Turning
<1>3. WindowsSound
  <2>1. windows = [kind \in {"flight", "hotel"} |-> windows[kind]] /\ DOMAIN windows = {"flight", "hotel"}
        /\ windows["flight"] = None /\ windows["hotel"] = None
    BY <1>1
  <2> QED
    BY <2>1 DEF WindowsSound, WindowsOrdered
<1>4. CardsSound
  <2>1. /\ cards = [kind \in Kinds |-> cards[kind]] /\ told = [kind \in Kinds |-> told[kind]]
        /\ \A kind \in Kinds : cards[kind] = <<>> /\ told[kind] = <<>>
    BY <1>1 DEF Kinds
  <2>2. Len(<<>>) = 0 /\ <<>> \in Seq(Nat)
    OBVIOUS
  <2>3. IsList(<<>>)
    BY <2>2, SeqIsList
  <2>4. IsPrefix(<<>>, <<>>)
    BY <2>2 DEF IsPrefix
  <2>5. Min({5, 0}) = 0
    <3>1. Min({5, 0}) \in Nat /\ Min({5, 0}) <= 0
      BY MinTwo
    <3> QED
      BY <3>1
  <2>6. \A kind \in Kinds : CardsTold(kind)
    BY <2>1, <2>2, <2>3, <2>4, <2>5 DEF CardsTold
  <2> QED
    BY <2>1, <2>6 DEF CardsSound
<1>5. CallsSound /\ ReplySound
  BY <1>1 DEF CallsSound, ReplySound
<1>6. BillSound
  <2>1. bill \in Seq(Nat) /\ Owed = 0
    BY <1>1, OwedNothing DEF Owed
  <2> QED
    BY <1>1, <2>1, PlannerAssumption DEF BillSound
<1> QED
  BY <1>2, <1>3, <1>4, <1>5, <1>6

\* The conversation without its empty messages.
LEMMA SanitizedIs ==
    ASSUME NEW messages \in Seq(Message)
    PROVE  /\ Sanitized(messages) \in Seq(Message)
           /\ Sanitized(messages) \in Seq([role : {"user", "assistant"}, text : Words])
<1> DEFINE S == {i \in DOMAIN messages : i > Len(messages) - 10 /\ messages[i].text # Blank}
           Y == [role : {"user", "assistant"}, text : Words]
<1>1. \A i \in S : messages[i] \in Message /\ messages[i].text # Blank
  BY LenProperties, ElementOfSeq
<1>2. \A i \in S : messages[i] \in Y
  BY <1>1 DEF Message
<1>3. S \subseteq DOMAIN messages
  OBVIOUS
<1>4. Sanitized(messages) = Only(messages, S)
  BY DEF Sanitized
<1> HIDE DEF S
<1>5. Only(messages, S) \in Seq(Message)
  BY <1>3, OnlySeq
<1>6. Only(messages, S) \in Seq(Y)
  <2> HIDE DEF Y
  <2> QED
    BY <1>2, <1>3, OnlyKind
<1> QED
  BY <1>4, <1>5, <1>6

\* AgentService.run asks back before anything is shown.
LEMMA ListenStep ==
    ASSUME TurnInv, Listen
    PROVE  TurnInv'
<1>1. /\ pc = "idle" /\ endpoint = "chat" /\ endpoint' = endpoint /\ history' = Sanitized(history)
      /\ \/ pc' = "answered" /\ reply' = "clarify"
         \/ pc' = "model" /\ reply' = reply
      /\ UNCHANGED <<balance, calls, cards, told, windows, bill, booked>>
  BY DEF Listen, plannerVars, request
<1>2. HistorySound /\ WindowsSound /\ CardsSound /\ BillSound
  BY <1>1 DEF TurnInv
<1>3. HistorySound'
  BY <1>1, <1>2, SanitizedIs DEF HistorySound
<1>4. WindowsSound'
  <2>1. /\ windows' = [kind \in {"flight", "hotel"} |-> windows'[kind]]
        /\ \A kind \in {"flight", "hotel"} : windows'[kind] = None
    BY <1>1, <1>2 DEF WindowsSound
  <2>2. DOMAIN windows' = {"flight", "hotel"}
    BY <2>1
  <2> QED
    BY <1>1, <2>1, <2>2 DEF WindowsSound, WindowsOrdered
<1>5. \A kind \in Kinds : CardsTold(kind)' /\ cards'[kind] = <<>>
  BY <1>1, <1>2, ToldFrame DEF CardsSound
<1>6. CardsSound' /\ CallsSound'
  BY <1>1, <1>2, <1>5 DEF CardsSound, CallsSound
<1>7. /\ bill = <<>> /\ Owed <= Opening /\ bill \in Seq(Nat) /\ (booked = None <=> bill = <<>>)
      /\ balance = Opening /\ reply = None
  BY <1>1, <1>2 DEF BillSound
<1>8. Owed = 0 /\ Owed' = Owed
  BY <1>1, <1>7, OwedNothing DEF Owed
<1>9. BillSound'
  BY <1>1, <1>7, <1>8 DEF BillSound
<1>10. ReplySound'
  BY <1>1, <1>5, <1>7, <1>8, PlannerAssumption DEF ReplySound
<1> QED
  BY <1>1, <1>3, <1>4, <1>6, <1>9, <1>10 DEF TurnInv

\* Where the planner stands in for the model, no turn is taken.
LEMMA StandsIn ==
    ASSUME TurnInv, endpoint = "chat", Next, UNCHANGED <<history, turnVars>>
    PROVE  TurnInv'
<1>1. /\ pc \in {"idle", "design", "rules", "legs", "summary"}
      /\ pc' \in {"design", "rules", "legs", "summary", "answered", "error"}
      /\ endpoint' = endpoint /\ balance' = balance
  BY DEF Next, Step, Receive, Design, Rules, LegAnswers, LegFails, ComposeRules, ComposeItinerary,
         Summarise, Confirm, FallBack, Search, request
<1>2. UNCHANGED <<history, calls, cards, told, windows, bill, booked, reply>>
  BY DEF turnVars
<1>3. HistorySound /\ WindowsSound /\ CardsSound /\ BillSound
  BY DEF TurnInv
<1>4. WindowsSound'
  BY <1>1, <1>2, <1>3, WindowsFrame
<1>5. HistorySound' /\ CardsSound' /\ CallsSound' /\ BillSound' /\ ReplySound'
  BY <1>1, <1>2, <1>3 DEF HistorySound, CardsSound, CallsSound, BillSound, ReplySound, Turning
<1> QED
  BY <1>1, <1>4, <1>5 DEF TurnInv

\* A step that changes nothing preserves the invariant of a turn.
LEMMA TurnStutters ==
    ASSUME TurnInv, UNCHANGED <<vars, history, turnVars>>
    PROVE  TurnInv'
<1>1. UNCHANGED <<endpoint, pc, balance, history, calls, cards, told, windows, bill, booked, reply>>
  BY DEF vars, request, turnVars
<1> SUFFICES ASSUME endpoint = "chat" PROVE TurnInv'
  BY <1>1 DEF TurnInv
<1>2. HistorySound /\ WindowsSound /\ CardsSound /\ CallsSound /\ BillSound /\ ReplySound
  BY DEF TurnInv
<1>3. Latest' = Latest /\ Owed' = Owed
  BY <1>1, LatestFrame DEF Owed
<1>4. \A kind : CardsTold(kind) => CardsTold(kind)'
  BY <1>1, ToldFrame
<1>5. WindowsSound'
  BY <1>1, <1>2, <1>3 DEF WindowsSound, WindowsOrdered
<1>6. HistorySound' /\ CallsSound'
  BY <1>1, <1>2 DEF HistorySound, CallsSound
<1>7. CardsSound'
  BY <1>1, <1>2, <1>4 DEF CardsSound
<1>8. BillSound'
  BY <1>1, <1>2, <1>3 DEF BillSound
<1>9. ReplySound'
  BY <1>1, <1>2, <1>3, <1>4 DEF ReplySound
<1> QED
  BY <1>5, <1>6, <1>7, <1>8, <1>9 DEF TurnInv

\* The endpoint of a request stays.
LEMMA SameEndpoint == ASSUME ConciergeNext PROVE endpoint' = endpoint
BY DEF ConciergeNext, Listen, Turn, CallTools, GiveUp, Speak, SearchAgain, SearchFlights, SearchHotels,
       SearchRestaurants, BookPriced, BookRestaurant, OtherTool, Raise, Reply, NextCall, plannerVars,
       Next, Step, Receive, Design, Rules, LegAnswers, LegFails, ComposeRules, ComposeItinerary,
       Summarise, Confirm, FallBack, Search, request

\* The invariant of a turn of AgentService.run holds throughout: the messages, the windows
\* last searched for, the cards and what the model was told of them, and the open bill.
THEOREM TurnsAreSound == ConciergeSpec => []TurnInv
<1>1. ConciergeInit => TurnInv
  BY TurnInitially
<1>2. TurnInv /\ [ConciergeNext]_<<vars, history, turnVars>> => TurnInv'
  <2> SUFFICES ASSUME TurnInv, ConciergeNext PROVE TurnInv'
    BY TurnStutters
  <2>1. CASE endpoint # "chat"
    BY <2>1, SameEndpoint DEF TurnInv
  <2>2. CASE endpoint = "chat" /\ Next /\ UNCHANGED <<history, turnVars>>
    BY <2>2, StandsIn
  <2>3. CASE Listen
    BY <2>3, ListenStep
  <2>4. CASE endpoint = "chat" /\ Turn
    BY <2>4, SearchFlightsStep, SearchHotelsStep, SearchRestaurantsStep, BookPricedStep,
       BookRestaurantStep, OtherToolStep, CallToolsStep, RaiseStep, SayStep, SearchAgainStep DEF Turn
  <2> QED
    BY <2>1, <2>2, <2>3, <2>4 DEF ConciergeNext
<1> QED
  BY <1>1, <1>2, PTL DEF ConciergeSpec

\* What the concierge answers agrees with what it shows and has booked: the cards begin with
\* the options the model was told last, the response shows a booking exactly if the turn
\* made one, the balance has paid them all, and every window has its days in order.
THEOREM RepliesTruthful == ConciergeSpec => []ReplyTruthful
BY TurnsAreSound, ReplyFollows, PTL

-----------------------------------------------------------------------------
(* Errors *)

\* Only a chat takes turns, with a key for the model, and only its sentences are short.
ErrorInv ==
    /\ endpoint # "chat" => ~prompt.short
    /\ pc \in Turning => endpoint = "chat" /\ "openai" \in keys
    /\ ErrorCaused

\* An error of the service has one of its causes: a hint that float() does not take, a model
\* or a tool that raised, or a chat of fewer than three characters (ai_plan_trip, plan_trip
\* and the chat endpoint).
THEOREM ErrorsCaused == ConciergeSpec => []ErrorCaused
<1>1. ConciergeInit => ErrorInv
  BY DEF ConciergeInit, Init, ErrorInv, ErrorCaused, Turning
<1>2. ErrorInv /\ [ConciergeNext]_<<vars, history, turnVars>> => ErrorInv'
  <2> SUFFICES ASSUME ErrorInv, [ConciergeNext]_<<vars, history, turnVars>> PROVE ErrorInv'
    OBVIOUS
  <2>1. CASE Next
    <3>1. UNCHANGED request
      BY <2>1 DEF Next, Step, Receive, Design, Rules, LegAnswers, LegFails, ComposeRules,
                  ComposeItinerary, Summarise, Confirm, FallBack, Search
    <3>2. CASE Receive
      BY <3>1, <3>2 DEF Receive, ErrorInv, ErrorCaused, Turning, request
    <3>3. CASE Rules
      BY <3>1, <3>3 DEF Rules, Search, ErrorInv, ErrorCaused, Turning, request
    <3>4. CASE Confirm
      <4>1. pc' \in {"empty", "booked", "refused", "invalid"}
        BY <3>4 DEF Confirm, Outcome
      <4> QED
        BY <3>1, <4>1 DEF ErrorInv, ErrorCaused, Turning, request
    <3>5. CASE Design
      <4>1. pc' \in {"rules", "legs"}
        BY <3>5 DEF Design, FallBack, Search
      <4> QED
        BY <3>1, <4>1 DEF ErrorInv, ErrorCaused, Turning, request
    <3>6. CASE ComposeRules \/ ComposeItinerary \/ Summarise \/ \E l \in Legs : LegAnswers(l) \/ LegFails(l)
      <4>1. pc' \in {"rules", "legs", "summary", "answered"}
        BY <3>6 DEF ComposeRules, ComposeItinerary, Summarise, LegAnswers, LegFails, FallBack
      <4> QED
        BY <3>1, <4>1 DEF ErrorInv, ErrorCaused, Turning, request
    <3> QED
      BY <2>1, <3>2, <3>3, <3>4, <3>5, <3>6 DEF Next, Step
  <2>2. CASE Listen
    BY <2>2 DEF ErrorInv, ErrorCaused, Turning, Listen, plannerVars, request
  <2>3. CASE Turn
    BY <2>3, TurnFrame DEF ErrorInv, ErrorCaused, Turning, plannerVars, request
  <2>4. CASE UNCHANGED <<vars, history, turnVars>>
    BY <2>4 DEF ErrorInv, ErrorCaused, Turning, vars, request
  <2> QED
    BY <2>1, <2>2, <2>3, <2>4 DEF ConciergeNext
<1>3. ErrorInv => ErrorCaused
  BY DEF ErrorInv
<1> QED
  BY <1>1, <1>2, <1>3, PTL DEF ConciergeSpec

=============================================================================
