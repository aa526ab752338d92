----------------------------- MODULE GridProofs -----------------------------
(***************************************************************************)
(* Proofs about TibberStream and its GridState: type correctness, that     *)
(* keeping TopDays days on the fly keeps the dearest days of the month     *)
(* (GInv), and that the curve is genuine (CurveInv): the quarters are in   *)
(* order, and no more is told than was used, for every sequence of hours,  *)
(* corrections, months, connections, syncs and restarts.                   *)
(***************************************************************************)
EXTENDS TibberStream, FiniteSetTheorems, WellFoundedInduction, TLAPS

LEMMA ConstantsTyped ==
    /\ TopDays \in Nat \ {0} /\ Nothing \notin Nat
    /\ Days \subseteq Nat /\ IsFiniteSet(Days)
    /\ Instants \subseteq Quarters /\ Instants # {}
BY GridStateAssumption, TibberStreamAssumption

LEMMA HourTyped == \A q \in Quarters : q \in Nat /\ HourOf(q) \in Hours
<1> SUFFICES ASSUME NEW q \in Quarters PROVE q \in Nat /\ HourOf(q) \in Hours
    OBVIOUS
<1>1. PICK h \in Hours : q \in 4 * h .. 4 * h + 3
    BY DEF Quarters
<1>2. PICK d \in Days : h \in 24 * d .. 24 * d + 23
    BY DEF Hours
<1>3. d \in Nat
    BY ConstantsTyped
<1>4. h \in Nat
    BY <1>2, <1>3
<1>5. q \in Nat /\ q \div 4 = h
    BY <1>1, <1>4
<1> QED BY <1>5 DEF HourOf

LEMMA DayTyped == \A h \in Hours : h \in Nat /\ DayOf(h) \in Days
<1> SUFFICES ASSUME NEW h \in Hours PROVE h \in Nat /\ DayOf(h) \in Days
    OBVIOUS
<1>1. PICK d \in Days : h \in 24 * d .. 24 * d + 23
    BY DEF Hours
<1>2. d \in Nat
    BY ConstantsTyped
<1>3. h \in Nat /\ h \div 24 = d
    BY <1>1, <1>2
<1> QED BY <1>3 DEF DayOf

\* A set of natural numbers that is not empty has a smallest one.
LEMMA LeastNat ==
    ASSUME NEW T \in SUBSET Nat, T # {}
    PROVE  \E x \in T : \A y \in T : x <= y
<1> DEFINE R == OpToRel(<, Nat)
<1>1. IsWellFoundedOn(R, Nat)
    BY NatLessThanWellFounded
<1>2. \A x, y \in Nat : y < x => <<y, x>> \in R
    BY DEF OpToRel
<1> HIDE DEF R
<1>3. PICK x \in T : \A y \in T : ~ (<<y, x>> \in R)
    BY <1>1, WFMin
<1>4. \A y \in T : ~ (y < x)
    BY <1>2, <1>3
<1> QED BY <1>4

Peaks(f) == DOMAIN f \subseteq Days /\ f \in [DOMAIN f -> [hour : Hours, kwh : Nat]]
Bests(f) == DOMAIN f \subseteq Days /\ f \in [DOMAIN f -> Nat]

LEMMA LowestTyped ==
    ASSUME NEW peaks, Peaks(peaks), DOMAIN peaks # {}, NEW tie
    PROVE  /\ LowestDay(peaks, tie) \in DOMAIN peaks
           /\ \A e \in DOMAIN peaks : peaks[LowestDay(peaks, tie)].kwh <= peaks[e].kwh
<1>1. \A d \in DOMAIN peaks : peaks[d].kwh \in Nat
    BY DEF Peaks
<1> DEFINE T == {peaks[d].kwh : d \in DOMAIN peaks}
<1>2. T \in SUBSET Nat /\ T # {}
    BY <1>1
<1>3. PICK x \in T : \A y \in T : x <= y
    BY <1>2, LeastNat
<1>4. LowestDays(peaks) # {}
    BY <1>3 DEF LowestDays
<1>5. LowestDay(peaks, tie) \in LowestDays(peaks)
    BY <1>4 DEF LowestDay
<1> QED BY <1>5 DEF LowestDays

LEMMA KeptFinite ==
    ASSUME NEW f, DOMAIN f \subseteq Days
    PROVE  /\ IsFiniteSet(DOMAIN f) /\ Cardinality(DOMAIN f) \in Nat
           /\ Cardinality(DOMAIN f) = 0 <=> DOMAIN f = {}
BY ConstantsTyped, FS_Subset, FS_CardinalityType, FS_EmptySet

LEMMA RaisedTyped ==
    ASSUME NEW best, Bests(best), NEW day \in Days, NEW kwh \in Nat
    PROVE  /\ Bests(Raised(best, day, kwh))
           /\ DOMAIN Raised(best, day, kwh) = DOMAIN best \cup {day}
           /\ \A e \in DOMAIN best \ {day} : Raised(best, day, kwh)[e] = best[e]
           /\ day \in DOMAIN best =>
                 Raised(best, day, kwh)[day] = IF best[day] > kwh THEN best[day] ELSE kwh
           /\ day \notin DOMAIN best => Raised(best, day, kwh)[day] = kwh
<1> DEFINE v == IF day \in DOMAIN best /\ best[day] > kwh THEN best[day] ELSE kwh
<1>1. v \in Nat
    BY DEF Bests
<1>2. Raised(best, day, kwh) = With(best, day, v)
    BY DEF Raised
<1> HIDE DEF v
<1>3. /\ DOMAIN With(best, day, v) = DOMAIN best \cup {day}
      /\ With(best, day, v)[day] = v
      /\ \A e \in DOMAIN best \ {day} : With(best, day, v)[e] = best[e]
      /\ With(best, day, v) = [e \in DOMAIN With(best, day, v) |-> With(best, day, v)[e]]
    BY DEF With
<1>4. \A e \in DOMAIN With(best, day, v) : With(best, day, v)[e] \in Nat
    BY <1>1, <1>3 DEF Bests
<1>5. Bests(With(best, day, v))
    BY <1>3, <1>4 DEF Bests
<1> QED BY <1>2, <1>3, <1>5 DEF v

\* A stored day that is raised.
LEMMA RaiseTop ==
    ASSUME NEW peaks, NEW best, Peaks(peaks), Bests(best), TopDaysOf(peaks, best),
           NEW day \in DOMAIN peaks, NEW peak \in [hour : Hours, kwh : Nat],
           NEW kwh \in Nat, kwh = peak.kwh, kwh > peaks[day].kwh
    PROVE  /\ Peaks(With(peaks, day, peak))
           /\ TopDaysOf(With(peaks, day, peak), Raised(best, day, kwh))
<1> DEFINE P == With(peaks, day, peak)
           B == Raised(best, day, kwh)
<1>0. day \in Days /\ DOMAIN peaks \subseteq Days
    BY DEF Peaks
<1>1. /\ DOMAIN P = DOMAIN peaks \cup {day} /\ P[day] = peak
      /\ \A e \in DOMAIN peaks \ {day} : P[e] = peaks[e]
      /\ P = [e \in DOMAIN P |-> P[e]]
    BY DEF With
<1>2. /\ DOMAIN B = DOMAIN best \cup {day}
      /\ \A e \in DOMAIN best \ {day} : B[e] = best[e]
      /\ day \in DOMAIN best => B[day] = IF best[day] > kwh THEN best[day] ELSE kwh
    BY DEF Raised, With
<1> HIDE DEF P, B
<1>3. Peaks(P)
    <2>1. \A e \in DOMAIN P : P[e] \in [hour : Hours, kwh : Nat]
        BY <1>1 DEF Peaks
    <2> QED BY <1>0, <1>1, <2>1 DEF Peaks
<1>4. \A e \in DOMAIN best : best[e] \in Nat
    BY DEF Bests
<1>5. /\ DOMAIN peaks \subseteq DOMAIN best
      /\ \A d \in DOMAIN peaks : peaks[d].kwh = best[d]
      /\ Cardinality(DOMAIN peaks) <= TopDays
      /\ \A d \in DOMAIN best \ DOMAIN peaks :
            /\ Cardinality(DOMAIN peaks) = TopDays
            /\ \A e \in DOMAIN peaks : best[d] <= best[e]
    BY DEF TopDaysOf
<1>6. DOMAIN P = DOMAIN peaks /\ DOMAIN B = DOMAIN best
    BY <1>1, <1>2, <1>5
<1>7. kwh > best[day] /\ best[day] \in Nat
    BY <1>4, <1>5
<1>8. B[day] = kwh
    BY <1>2, <1>5, <1>7
<1>9. \A d \in DOMAIN P : P[d].kwh = B[d]
    BY <1>1, <1>2, <1>5, <1>6, <1>8
<1>10. ASSUME NEW d \in DOMAIN B \ DOMAIN P, NEW e \in DOMAIN P PROVE B[d] <= B[e]
    <2>1. B[d] = best[d] /\ best[d] <= best[e] /\ best[d] \in Nat /\ best[e] \in Nat
        BY <1>2, <1>4, <1>5, <1>6
    <2>2. CASE e = day
        BY <1>7, <1>8, <2>1, <2>2
    <2>3. CASE e # day
        BY <1>2, <1>5, <1>6, <2>1, <2>3
    <2> QED BY <2>2, <2>3
<1> QED BY <1>3, <1>5, <1>6, <1>9, <1>10 DEF TopDaysOf, P, B

\* A day added while there is room.
LEMMA AddTop ==
    ASSUME NEW peaks, NEW best, Peaks(peaks), Bests(best), TopDaysOf(peaks, best),
           NEW day \in Days \ DOMAIN peaks, NEW peak \in [hour : Hours, kwh : Nat],
           NEW kwh \in Nat, kwh = peak.kwh, Cardinality(DOMAIN peaks) < TopDays
    PROVE  /\ Peaks(With(peaks, day, peak))
           /\ TopDaysOf(With(peaks, day, peak), Raised(best, day, kwh))
<1> DEFINE P == With(peaks, day, peak)
           B == Raised(best, day, kwh)
<1>1. /\ DOMAIN P = DOMAIN peaks \cup {day} /\ P[day] = peak
      /\ \A e \in DOMAIN peaks \ {day} : P[e] = peaks[e]
      /\ P = [e \in DOMAIN P |-> P[e]]
    BY DEF With
<1>2. /\ DOMAIN B = DOMAIN best \cup {day}
      /\ \A e \in DOMAIN best \ {day} : B[e] = best[e]
      /\ day \notin DOMAIN best => B[day] = kwh
    BY DEF Raised, With
<1> HIDE DEF P, B
<1>3. DOMAIN peaks \subseteq Days /\ IsFiniteSet(DOMAIN peaks)
      /\ Cardinality(DOMAIN peaks) \in Nat
    BY KeptFinite DEF Peaks
<1>4. Peaks(P)
    <2>1. \A e \in DOMAIN P : P[e] \in [hour : Hours, kwh : Nat]
        BY <1>1 DEF Peaks
    <2> QED BY <1>1, <1>3, <2>1 DEF Peaks
<1>5. /\ DOMAIN peaks \subseteq DOMAIN best
      /\ \A d \in DOMAIN peaks : peaks[d].kwh = best[d]
      /\ \A d \in DOMAIN best \ DOMAIN peaks : Cardinality(DOMAIN peaks) = TopDays
    BY DEF TopDaysOf
<1>6. DOMAIN best = DOMAIN peaks
    BY <1>3, <1>5, ConstantsTyped
<1>7. DOMAIN P = DOMAIN B /\ B[day] = kwh
    BY <1>1, <1>2, <1>6
<1>8. \A d \in DOMAIN P : P[d].kwh = B[d]
    BY <1>1, <1>2, <1>5, <1>6, <1>7
<1>9. Cardinality(DOMAIN P) <= TopDays
    <2>1. Cardinality(DOMAIN P) = Cardinality(DOMAIN peaks) + 1
        BY <1>1, <1>3, FS_AddElement
    <2> QED BY <1>3, <2>1, ConstantsTyped
<1> QED BY <1>4, <1>7, <1>8, <1>9 DEF TopDaysOf, P, B

\* A day that takes the place of the lowest one.
LEMMA ReplaceTop ==
    ASSUME NEW peaks, NEW best, Peaks(peaks), Bests(best), TopDaysOf(peaks, best),
           NEW day \in Days \ DOMAIN peaks, NEW peak \in [hour : Hours, kwh : Nat],
           Cardinality(DOMAIN peaks) >= TopDays, NEW tie,
           peak.kwh > peaks[LowestDay(peaks, tie)].kwh
    PROVE  LET P == With(Without(peaks, LowestDay(peaks, tie)), day, peak)
           IN  Peaks(P) /\ TopDaysOf(P, Raised(best, day, peak.kwh))
<1> DEFINE low == LowestDay(peaks, tie)
           W == Without(peaks, low)
           P == With(W, day, peak)
           B == Raised(best, day, peak.kwh)
<1>0. peak.kwh \in Nat
    OBVIOUS
<1>1. /\ IsFiniteSet(DOMAIN peaks) /\ Cardinality(DOMAIN peaks) \in Nat
      /\ DOMAIN peaks # {}
    <2>1. DOMAIN peaks \subseteq Days
        BY DEF Peaks
    <2>2. /\ IsFiniteSet(DOMAIN peaks) /\ Cardinality(DOMAIN peaks) \in Nat
          /\ Cardinality(DOMAIN peaks) = 0 <=> DOMAIN peaks = {}
        BY <2>1, KeptFinite
    <2>3. Cardinality(DOMAIN peaks) # 0
        BY <2>2, ConstantsTyped
    <2> QED BY <2>2, <2>3
<1>2. low \in DOMAIN peaks /\ \A e \in DOMAIN peaks : peaks[low].kwh <= peaks[e].kwh
    BY <1>1, LowestTyped
<1>3. DOMAIN W = DOMAIN peaks \ {low} /\ \A e \in DOMAIN peaks \ {low} : W[e] = peaks[e]
    BY DEF Without
<1>4. /\ DOMAIN P = DOMAIN W \cup {day} /\ P[day] = peak
      /\ \A e \in DOMAIN W \ {day} : P[e] = W[e]
      /\ P = [e \in DOMAIN P |-> P[e]]
    BY DEF With
<1>5. /\ DOMAIN B = DOMAIN best \cup {day}
      /\ \A e \in DOMAIN best \ {day} : B[e] = best[e]
      /\ day \in DOMAIN best => B[day] = IF best[day] > peak.kwh THEN best[day] ELSE peak.kwh
      /\ day \notin DOMAIN best => B[day] = peak.kwh
    <2> DEFINE k == peak.kwh
    <2>1. k \in Nat
        BY <1>0
    <2> HIDE DEF k
    <2>2. /\ DOMAIN Raised(best, day, k) = DOMAIN best \cup {day}
          /\ \A e \in DOMAIN best \ {day} : Raised(best, day, k)[e] = best[e]
          /\ day \in DOMAIN best =>
                Raised(best, day, k)[day] = IF best[day] > k THEN best[day] ELSE k
          /\ day \notin DOMAIN best => Raised(best, day, k)[day] = k
        BY <2>1, RaisedTyped
    <2> QED BY <2>2 DEF k
<1>6. peak.kwh > peaks[low].kwh
    OBVIOUS
<1> HIDE DEF low, W, P, B
<1>7. peak.kwh \in Nat /\ \A e \in DOMAIN best : best[e] \in Nat
    BY DEF Bests
<1>8. /\ DOMAIN peaks \subseteq DOMAIN best
      /\ \A d \in DOMAIN peaks : peaks[d].kwh = best[d]
      /\ Cardinality(DOMAIN peaks) <= TopDays
      /\ \A d \in DOMAIN best \ DOMAIN peaks : \A e \in DOMAIN peaks : best[d] <= best[e]
    BY DEF TopDaysOf
<1>9. DOMAIN P = (DOMAIN peaks \ {low}) \cup {day} /\ \A e \in DOMAIN peaks \ {low} : P[e] = peaks[e]
    BY <1>3, <1>4
<1>10. Peaks(P)
    <2>1. \A e \in DOMAIN P : P[e] \in [hour : Hours, kwh : Nat]
        BY <1>4, <1>9 DEF Peaks
    <2>2. DOMAIN P \subseteq Days
        BY <1>9 DEF Peaks
    <2> QED BY <1>4, <2>1, <2>2 DEF Peaks
<1>11. Cardinality(DOMAIN P) = TopDays
    <2>1. IsFiniteSet(DOMAIN peaks \ {low})
          /\ Cardinality(DOMAIN peaks \ {low}) = Cardinality(DOMAIN peaks) - 1
        BY <1>1, <1>2, FS_RemoveElement
    <2>2. day \notin DOMAIN peaks \ {low}
        OBVIOUS
    <2>3. Cardinality(DOMAIN P) = Cardinality(DOMAIN peaks \ {low}) + 1
        BY <1>9, <2>1, <2>2, FS_AddElement
    <2>4. Cardinality(DOMAIN peaks) = TopDays
        BY <1>1, <1>8, ConstantsTyped
    <2> QED BY <1>1, <2>1, <2>3, <2>4
<1>12. best[low] < peak.kwh /\ \A e \in DOMAIN peaks : best[low] <= best[e]
    BY <1>2, <1>6, <1>8
<1>13. B[day] = peak.kwh
    <2>1. CASE day \in DOMAIN best
        <3>1. best[day] <= best[low] /\ best[day] \in Nat /\ best[low] \in Nat
            BY <1>2, <1>7, <1>8, <2>1
        <3>2. ~(best[day] > peak.kwh)
            BY <1>7, <1>12, <3>1
        <3> QED BY <1>5, <2>1, <3>2
    <2>2. CASE day \notin DOMAIN best
        BY <1>5, <2>2
    <2> QED BY <2>1, <2>2
<1>14. \A d \in DOMAIN P : P[d].kwh = B[d]
    BY <1>4, <1>5, <1>8, <1>9, <1>13
<1>15. ASSUME NEW d \in DOMAIN B \ DOMAIN P, NEW e \in DOMAIN P PROVE B[d] <= B[e]
    <2>1. d # day /\ d \in DOMAIN best /\ B[d] = best[d] /\ (d = low \/ d \notin DOMAIN peaks)
        BY <1>5, <1>9, <1>15
    <2>2. best[d] <= best[low]
        BY <1>2, <1>7, <1>8, <2>1
    <2>3. CASE e = day
        BY <1>2, <1>7, <1>8, <1>12, <1>13, <2>1, <2>2, <2>3
    <2>4. CASE e # day
        <3>1. e \in DOMAIN peaks /\ B[e] = best[e]
            BY <1>5, <1>8, <1>9, <2>4
        <3>2. best[low] <= best[e]
            BY <1>12, <3>1
        <3> QED BY <1>2, <1>7, <1>8, <2>1, <2>2, <3>1, <3>2
    <2> QED BY <2>3, <2>4
<1>16. DOMAIN P \subseteq DOMAIN B
    BY <1>5, <1>8, <1>9
<1>17. TopDaysOf(P, B)
    <2>1. Cardinality(DOMAIN P) <= TopDays
        BY <1>11, ConstantsTyped
    <2> QED BY <1>11, <1>14, <1>15, <1>16, <2>1 DEF TopDaysOf
<1> QED BY <1>10, <1>17 DEF P, B, W, low

\* An hour that changes nothing of what is stored.
LEMMA SkipTop ==
    ASSUME NEW peaks, NEW best, Peaks(peaks), Bests(best), TopDaysOf(peaks, best),
           NEW day \in Days, NEW kwh \in Nat, NEW tie,
           \/ day \in DOMAIN peaks /\ ~(kwh > peaks[day].kwh)
           \/ /\ day \notin DOMAIN peaks /\ Cardinality(DOMAIN peaks) >= TopDays
              /\ ~(kwh > peaks[LowestDay(peaks, tie)].kwh)
    PROVE  TopDaysOf(peaks, Raised(best, day, kwh))
<1> DEFINE B == Raised(best, day, kwh)
           low == LowestDay(peaks, tie)
<1>1. /\ DOMAIN B = DOMAIN best \cup {day}
      /\ \A e \in DOMAIN best \ {day} : B[e] = best[e]
      /\ day \in DOMAIN best => B[day] = IF best[day] > kwh THEN best[day] ELSE kwh
      /\ day \notin DOMAIN best => B[day] = kwh
    BY RaisedTyped
<1>2. \A e \in DOMAIN best : best[e] \in Nat
    BY DEF Bests
<1>3. /\ DOMAIN peaks \subseteq DOMAIN best
      /\ \A d \in DOMAIN peaks : peaks[d].kwh = best[d]
      /\ Cardinality(DOMAIN peaks) <= TopDays
      /\ \A d \in DOMAIN best \ DOMAIN peaks :
            /\ Cardinality(DOMAIN peaks) = TopDays
            /\ \A e \in DOMAIN peaks : best[d] <= best[e]
    BY DEF TopDaysOf
<1>4. CASE day \in DOMAIN peaks /\ ~(kwh > peaks[day].kwh)
    <2>1. DOMAIN B = DOMAIN best /\ \A e \in DOMAIN best : B[e] = best[e]
        BY <1>1, <1>2, <1>3, <1>4
    <2> HIDE DEF B
    <2> QED BY <1>3, <2>1 DEF TopDaysOf, B
<1>5. CASE /\ day \notin DOMAIN peaks /\ Cardinality(DOMAIN peaks) >= TopDays
           /\ ~(kwh > peaks[low].kwh)
    <2>1. Cardinality(DOMAIN peaks) \in Nat /\ DOMAIN peaks # {}
        BY <1>5, KeptFinite, ConstantsTyped DEF Peaks
    <2>2. low \in DOMAIN peaks /\ \A e \in DOMAIN peaks : peaks[low].kwh <= peaks[e].kwh
        BY <2>1, LowestTyped
    <2>3. Cardinality(DOMAIN peaks) = TopDays
        BY <1>3, <1>5, <2>1, ConstantsTyped
    <2> HIDE DEF B, low
    <2>4. \A e \in DOMAIN peaks : B[e] = best[e]
        BY <1>1, <1>3, <1>5
    <2>5. ASSUME NEW d \in DOMAIN B \ DOMAIN peaks, NEW e \in DOMAIN peaks
          PROVE  B[d] <= B[e]
        <3>1. kwh <= best[e]
            BY <1>2, <1>3, <1>5, <2>2
        <3>2. CASE d = day
            BY <1>1, <1>2, <1>3, <1>5, <2>4, <3>1, <3>2
        <3>3. CASE d # day
            BY <1>1, <1>3, <2>4, <3>3
        <3> QED BY <3>2, <3>3
    <2> QED BY <1>1, <1>3, <2>3, <2>4, <2>5 DEF TopDaysOf, B
<1> QED BY <1>4, <1>5 DEF low

LEMMA NewPeaksTop ==
    ASSUME NEW peaks, NEW best, Peaks(peaks), Bests(best), TopDaysOf(peaks, best),
           NEW day \in Days, NEW peak \in [hour : Hours, kwh : Nat], NEW tie
    PROVE  /\ Peaks(NewPeaks(peaks, day, peak, tie))
           /\ TopDaysOf(NewPeaks(peaks, day, peak, tie), Raised(best, day, peak.kwh))
<1>0. Cardinality(DOMAIN peaks) \in Nat /\ TopDays \in Nat /\ peak.kwh \in Nat
    BY KeptFinite, ConstantsTyped DEF Peaks
<1>1. CASE day \in DOMAIN peaks
    <2>1. CASE peak.kwh > peaks[day].kwh
        <3>1. NewPeaks(peaks, day, peak, tie) = With(peaks, day, peak)
            BY <1>1, <2>1 DEF NewPeaks
        <3> QED BY <1>0, <1>1, <2>1, <3>1, RaiseTop
    <2>2. CASE ~(peak.kwh > peaks[day].kwh)
        <3>1. NewPeaks(peaks, day, peak, tie) = peaks
            BY <1>1, <2>2 DEF NewPeaks
        <3> QED BY <1>1, <2>2, <3>1, SkipTop
    <2> QED BY <2>1, <2>2
<1>2. CASE day \notin DOMAIN peaks /\ Cardinality(DOMAIN peaks) < TopDays
    <2>1. NewPeaks(peaks, day, peak, tie) = With(peaks, day, peak)
        BY <1>0, <1>2 DEF NewPeaks
    <2> QED BY <1>0, <1>2, <2>1, AddTop
<1>3. CASE day \notin DOMAIN peaks /\ Cardinality(DOMAIN peaks) >= TopDays
    <2>1. CASE peak.kwh > peaks[LowestDay(peaks, tie)].kwh
        <3>1. NewPeaks(peaks, day, peak, tie)
                 = With(Without(peaks, LowestDay(peaks, tie)), day, peak)
            BY <1>0, <1>3, <2>1 DEF NewPeaks
        <3> QED BY <1>3, <2>1, <3>1, ReplaceTop
    <2>2. CASE ~(peak.kwh > peaks[LowestDay(peaks, tie)].kwh)
        <3>1. NewPeaks(peaks, day, peak, tie) = peaks
            BY <1>0, <1>3, <2>2 DEF NewPeaks
        <3> QED BY <1>3, <2>2, <3>1, SkipTop
    <2> QED BY <2>1, <2>2
<1> QED BY <1>0, <1>1, <1>2, <1>3

-----------------------------------------------------------------------------
(* The operations of the record. *)

Good(g) == TypedGrid(g) /\ TopDaysOf(g.peaks, g.best)

LEMMA GoodParts ==
    ASSUME NEW g, Good(g)
    PROVE  Peaks(g.peaks) /\ Bests(g.best)
BY DEF Good, TypedGrid, Peaks, Bests

LEMMA MonthTyped == \A h \in Hours : MonthOf(DayOf(h)) \in Months
BY DayTyped DEF Months

LEMMA NoPeaksGood == Peaks(NoPeaks) /\ Bests(NoPeaks) /\ TopDaysOf(NoPeaks, NoPeaks)
<1>1. DOMAIN NoPeaks = {} /\ NoPeaks = [d \in {} |-> NoPeaks[d]]
    BY DEF NoPeaks
<1>2. Cardinality({}) = 0
    BY FS_EmptySet
<1> HIDE DEF NoPeaks
<1>3. Peaks(NoPeaks) /\ Bests(NoPeaks)
    BY <1>1 DEF Peaks, Bests
<1>4. TopDaysOf(NoPeaks, NoPeaks)
    BY <1>1, <1>2, ConstantsTyped DEF TopDaysOf
<1> QED BY <1>3, <1>4

LEMMA GoodFields ==
    ASSUME NEW g, Good(g)
    PROVE  /\ g = [field \in GridFields |-> g[field]]
           /\ g.hour \in Hours /\ g.hourKwh \in Nat \cup {Nothing}
           /\ g.quarter \in Quarters /\ g.quarterKwh \in Nat /\ g.month \in Months
BY DEF Good, TypedGrid

\* New peaks and a new best in a record that is good otherwise.
LEMMA PeaksReplaced ==
    ASSUME NEW g, Good(g), NEW G, G = [field \in GridFields |-> G[field]],
           Peaks(G.peaks), Bests(G.best), TopDaysOf(G.peaks, G.best), G.month \in Months,
           G.hour = g.hour, G.hourKwh = g.hourKwh, G.quarter = g.quarter,
           G.quarterKwh = g.quarterKwh
    PROVE  Good(G)
<1>1. TypedGrid(G)
    BY GoodFields DEF TypedGrid, Peaks, Bests
<1> QED BY <1>1 DEF Good

\* A record with the same peaks, best and month.
LEMMA PeaksKept ==
    ASSUME NEW g, Good(g), NEW G, G = [field \in GridFields |-> G[field]],
           G.peaks = g.peaks, G.best = g.best, G.month = g.month,
           G.hour \in Hours, G.hourKwh \in Nat \cup {Nothing},
           G.quarter \in Quarters, G.quarterKwh \in Nat
    PROVE  Good(G)
<1>1. TypedGrid(G)
    BY DEF Good, TypedGrid
<1> QED BY <1>1 DEF Good

LEMMA EnterMonthGood ==
    ASSUME NEW g, Good(g), NEW month \in Months
    PROVE  Good(EnterMonth(g, month))
<1>1. CASE month = g.month
    BY <1>1 DEF EnterMonth
<1>2. CASE month # g.month
    <2>1. EnterMonth(g, month)
             = [g EXCEPT !.peaks = NoPeaks, !.best = NoPeaks, !.month = month]
        BY <1>2 DEF EnterMonth
    <2> DEFINE G == [g EXCEPT !.peaks = NoPeaks, !.best = NoPeaks, !.month = month]
    <2>2. /\ G = [field \in GridFields |-> G[field]]
          /\ G.peaks = NoPeaks /\ G.best = NoPeaks /\ G.month = month
          /\ G.hour = g.hour /\ G.hourKwh = g.hourKwh /\ G.quarter = g.quarter
          /\ G.quarterKwh = g.quarterKwh
        BY GoodFields DEF GridFields
    <2> HIDE DEF G
    <2>3. Good(G)
        BY <2>2, NoPeaksGood, PeaksReplaced
    <2> QED BY <2>1, <2>3 DEF G
<1> QED BY <1>1, <1>2

LEMMA MaybeUpdatePeakGood ==
    ASSUME NEW g, Good(g), NEW hour \in Hours, NEW kwh \in Nat, NEW tie
    PROVE  Good(MaybeUpdatePeak(g, hour, kwh, tie))
<1> DEFINE day  == DayOf(hour)
           in   == EnterMonth(g, MonthOf(day))
           peak == [hour |-> hour, kwh |-> kwh]
           new  == NewPeaks(in.peaks, day, peak, tie)
           high == Raised(in.best, day, kwh)
<1>1. day \in Days /\ peak \in [hour : Hours, kwh : Nat] /\ peak.kwh = kwh
    BY DayTyped
<1>2. Good(in)
    BY MonthTyped, EnterMonthGood
<1> HIDE DEF day, in, peak
<1>3. Peaks(in.peaks) /\ Bests(in.best) /\ TopDaysOf(in.peaks, in.best)
    BY <1>2, GoodParts DEF Good
<1>4. /\ Peaks(new)
      /\ TopDaysOf(new, Raised(in.best, day, peak.kwh))
    BY <1>1, <1>3, NewPeaksTop
<1>5. TopDaysOf(new, high)
    BY <1>1, <1>4
<1>6. Bests(high)
    BY <1>1, <1>3, RaisedTyped
<1> HIDE DEF new, high
<1>7. Good([in EXCEPT !.peaks = new, !.best = high])
    <2> DEFINE G == [in EXCEPT !.peaks = new, !.best = high]
    <2>1. /\ G = [field \in GridFields |-> G[field]]
          /\ G.peaks = new /\ G.best = high /\ G.month = in.month
          /\ G.hour = in.hour /\ G.hourKwh = in.hourKwh /\ G.quarter = in.quarter
          /\ G.quarterKwh = in.quarterKwh
        BY <1>2, GoodFields DEF GridFields
    <2>2. in.month \in Months
        BY <1>2, GoodFields
    <2> HIDE DEF G
    <2>3. Good(G)
        BY <1>2, <1>4, <1>5, <1>6, <2>1, <2>2, PeaksReplaced
    <2> QED BY <2>3 DEF G
<1>8. MaybeUpdatePeak(g, hour, kwh, tie)
         = IF ~IsHigh(hour) THEN g ELSE [in EXCEPT !.peaks = new, !.best = high]
    BY DEF MaybeUpdatePeak, day, in, peak, new, high
<1> QED BY <1>7, <1>8

LEMMA HourGood ==
    ASSUME NEW g, Good(g), NEW hour \in Hours, NEW kwh \in Nat
    PROVE  /\ Good([g EXCEPT !.hourKwh = kwh])
           /\ Good([g EXCEPT !.hour = hour, !.hourKwh = kwh])
<1> DEFINE G == [g EXCEPT !.hourKwh = kwh]
           H == [g EXCEPT !.hour = hour, !.hourKwh = kwh]
<1>1. /\ G = [field \in GridFields |-> G[field]] /\ G.peaks = g.peaks /\ G.best = g.best
      /\ G.month = g.month /\ G.hour = g.hour /\ G.hourKwh = kwh
      /\ G.quarter = g.quarter /\ G.quarterKwh = g.quarterKwh
    BY GoodFields DEF GridFields
<1>2. /\ H = [field \in GridFields |-> H[field]] /\ H.peaks = g.peaks /\ H.best = g.best
      /\ H.month = g.month /\ H.hour = hour /\ H.hourKwh = kwh
      /\ H.quarter = g.quarter /\ H.quarterKwh = g.quarterKwh
    BY GoodFields DEF GridFields
<1> HIDE DEF G, H
<1>3. Good(G)
    BY <1>1, GoodFields, PeaksKept
<1>4. Good(H)
    BY <1>2, GoodFields, PeaksKept
<1> QED BY <1>3, <1>4 DEF G, H

LEMMA UpdateCurrentHourGood ==
    ASSUME NEW g, Good(g), NEW at \in Quarters, NEW kwh \in Nat, NEW tie
    PROVE  Good(UpdateCurrentHour(g, at, kwh, tie))
<1> DEFINE left == IF g.hourKwh = Nothing THEN g
                   ELSE MaybeUpdatePeak(g, g.hour, g.hourKwh, tie)
           turned == EnterMonth(left, MonthOf(DayOf(HourOf(at))))
<1>1. HourOf(at) \in Hours /\ MonthOf(DayOf(HourOf(at))) \in Months
    BY HourTyped, MonthTyped
<1>2. Good(left)
    <2>1. CASE g.hourKwh = Nothing
        BY <2>1
    <2>2. CASE g.hourKwh # Nothing
        <3>1. g.hour \in Hours /\ g.hourKwh \in Nat
            BY <2>2, GoodFields
        <3> QED BY <2>2, <3>1, MaybeUpdatePeakGood
    <2> QED BY <2>1, <2>2
<1> HIDE DEF left
<1>3. Good(turned)
    BY <1>1, <1>2, EnterMonthGood
<1> HIDE DEF turned
<1>4. Good([g EXCEPT !.hourKwh = kwh])
    BY HourGood, GoodFields
<1>5. Good([turned EXCEPT !.hour = HourOf(at), !.hourKwh = kwh])
    BY <1>1, <1>3, HourGood
<1>6. UpdateCurrentHour(g, at, kwh, tie)
         = IF HourOf(at) = g.hour THEN [g EXCEPT !.hourKwh = kwh]
           ELSE [turned EXCEPT !.hour = HourOf(at), !.hourKwh = kwh]
    BY DEF UpdateCurrentHour, turned, left
<1> QED BY <1>4, <1>5, <1>6

\* The three ways a step changes the quarters of a record.
LEMMA QuartersGood ==
    ASSUME NEW g, Good(g), NEW quarters, NEW quarter \in Quarters, NEW kwh \in Nat
    PROVE  /\ Good([g EXCEPT !.quarterKwh = kwh])
           /\ Good([g EXCEPT !.quarters = quarters])
           /\ Good([g EXCEPT !.quarters = quarters, !.quarter = quarter, !.quarterKwh = kwh])
<1> DEFINE G == [g EXCEPT !.quarterKwh = kwh]
           H == [g EXCEPT !.quarters = quarters]
           I == [g EXCEPT !.quarters = quarters, !.quarter = quarter, !.quarterKwh = kwh]
<1>1. /\ G = [field \in GridFields |-> G[field]] /\ G.peaks = g.peaks /\ G.best = g.best
      /\ G.month = g.month /\ G.hour = g.hour /\ G.hourKwh = g.hourKwh
      /\ G.quarter = g.quarter /\ G.quarterKwh = kwh
    BY GoodFields DEF GridFields
<1>2. /\ H = [field \in GridFields |-> H[field]] /\ H.peaks = g.peaks /\ H.best = g.best
      /\ H.month = g.month /\ H.hour = g.hour /\ H.hourKwh = g.hourKwh
      /\ H.quarter = g.quarter /\ H.quarterKwh = g.quarterKwh
    BY GoodFields DEF GridFields
<1>3. /\ I = [field \in GridFields |-> I[field]] /\ I.peaks = g.peaks /\ I.best = g.best
      /\ I.month = g.month /\ I.hour = g.hour /\ I.hourKwh = g.hourKwh
      /\ I.quarter = quarter /\ I.quarterKwh = kwh
    BY GoodFields DEF GridFields
<1> HIDE DEF G, H, I
<1>4. Good(G)
    BY <1>1, GoodFields, PeaksKept
<1>5. Good(H)
    BY <1>2, GoodFields, PeaksKept
<1>6. Good(I)
    BY <1>3, GoodFields, PeaksKept
<1> QED BY <1>4, <1>5, <1>6 DEF G, H, I

LEMMA UpdateCurrentQuarterGood ==
    ASSUME NEW g, Good(g), NEW at \in Quarters, NEW kwh \in Nat
    PROVE  Good(UpdateCurrentQuarter(g, at, kwh))
BY QuartersGood DEF UpdateCurrentQuarter

LEMMA RecordQuarterGood ==
    ASSUME NEW g, Good(g), NEW quarter, NEW kwh
    PROVE  Good(RecordQuarter(g, quarter, kwh))
<1>1. g.quarter \in Quarters /\ 0 \in Nat
    BY GoodFields
<1> QED BY <1>1, QuartersGood DEF RecordQuarter

LEMMA NewGridGood == \A q \in Quarters : Good(NewGrid(q))
<1> SUFFICES ASSUME NEW q \in Quarters PROVE Good(NewGrid(q))
    OBVIOUS
<1>1. HourOf(q) \in Hours /\ MonthOf(DayOf(HourOf(q))) \in Months
    BY HourTyped, MonthTyped
<1>2. TypedGrid(NewGrid(q))
    BY <1>1, NoPeaksGood DEF NewGrid, TypedGrid, GridFields, Peaks, Bests
<1>3. NewGrid(q).peaks = NoPeaks /\ NewGrid(q).best = NoPeaks
    BY DEF NewGrid
<1> QED BY <1>2, <1>3, NoPeaksGood DEF Good

-----------------------------------------------------------------------------
(* process_message. *)

\* A rotation that knows its quarter knows the counter it began with.
RotationPaired == rot.quarter # Nothing => rot.snapshot # Nothing

GInv == TypeOK /\ PeaksAreTopDays /\ RotationPaired

LEMMA GridGood == GInv => Good(grid)
BY DEF GInv, TypeOK, PeaksAreTopDays, Good

LEMMA EarliestTyped ==
    ASSUME NEW S \in SUBSET Nat, S # {}
    PROVE  Earliest(S) \in S
BY LeastNat DEF Earliest

LEMMA InstantTyped ==
    /\ Instants \subseteq Quarters /\ Instants \in SUBSET Nat
    /\ VisitedHours \in SUBSET Hours
BY ConstantsTyped, HourTyped DEF VisitedHours

\* A reading whose missing counters were filled in.
Counted   == [stamp : Quarters, today : Nat, hour : Nat]
Filled(x) == [x EXCEPT !.today = OrZero(@), !.hour = OrZero(@)]

LEMMA FilledTyped ==
    ASSUME NEW x \in Readings
    PROVE  /\ Filled(x) \in Counted /\ Filled(x).stamp = x.stamp
           /\ Filled(x).today = OrZero(x.today) /\ Filled(x).hour = OrZero(x.hour)
<1> DEFINE t == OrZero(x.today)
           h == OrZero(x.hour)
<1>1. x \in [stamp : Quarters, today : Nat \cup {Nothing}, hour : Nat \cup {Nothing}]
    BY DEF Readings
<1>2. t \in Nat /\ h \in Nat
    BY <1>1 DEF OrZero
<1>3. Filled(x) = [[x EXCEPT !.today = t] EXCEPT !.hour = h]
    BY DEF Filled
<1> HIDE DEF t, h
<1>4. Filled(x) = [stamp |-> x.stamp, today |-> t, hour |-> h]
    BY <1>1, <1>3
<1> QED BY <1>1, <1>2, <1>4 DEF Counted, t, h

LEMMA HourPathGood ==
    ASSUME GInv, NEW r \in Counted, NEW tie
    PROVE  Good(HourPath(r, tie))
<1>1. Good(grid) /\ now \in Quarters /\ r.hour \in Nat
    BY GridGood, InstantTyped DEF GInv, TypeOK, Counted
<1>2. Good(UpdateCurrentHour(grid, now, r.hour, tie))
    BY <1>1, UpdateCurrentHourGood
<1>3. rot.hour # Nothing => rot.hour \in Hours
    BY DEF GInv, TypeOK
<1>4. grid.hourKwh # Nothing => grid.hourKwh \in Nat
    BY <1>1, GoodFields
<1> QED BY <1>2, <1>3, <1>4, MaybeUpdatePeakGood DEF HourPath

LEMMA QuarterPathGood ==
    ASSUME GInv, NEW r \in Counted, NEW g, Good(g)
    PROVE  Good(QuarterPath(g, r))
<1>1. now \in Quarters /\ r.today \in Nat /\ 0 \in Nat
    BY InstantTyped DEF GInv, TypeOK, Counted
<1>2. CASE rot.quarter = Nothing
    BY <1>1, <1>2, UpdateCurrentQuarterGood DEF QuarterPath
<1>3. CASE rot.quarter # Nothing /\ SameQuarter(r)
    <2>1. rot.snapshot \in Nat /\ r.today >= rot.snapshot
        BY <1>3 DEF SameQuarter, GInv, TypeOK, RotationPaired
    <2>2. r.today - rot.snapshot \in Nat
        BY <1>1, <2>1
    <2>3. Good(UpdateCurrentQuarter(g, now, r.today - rot.snapshot))
        BY <1>1, <2>2, UpdateCurrentQuarterGood
    <2> QED BY <1>3, <2>3 DEF QuarterPath
<1>4. CASE rot.quarter # Nothing /\ ~SameQuarter(r)
    <2>1. Good(CloseQuarter(g, r))
        BY RecordQuarterGood DEF CloseQuarter
    <2>2. Good(UpdateCurrentQuarter(CloseQuarter(g, r), now, 0))
        BY <1>1, <2>1, UpdateCurrentQuarterGood
    <2> QED BY <1>4, <2>2 DEF QuarterPath
<1> QED BY <1>2, <1>3, <1>4

-----------------------------------------------------------------------------
(* The steps. *)

LEMMA HoursAreNat == Hours \subseteq Nat
BY DayTyped

\* Steps that leave the grid and the rotation alone, or begin a rotation anew.
LEMMA GridKept ==
    ASSUME GInv, TypeOK', UNCHANGED grid, UNCHANGED rot \/ rot' = NoRotation
    PROVE  GInv'
BY DEF GInv, PeaksAreTopDays, RotationPaired, NoRotation

LEMMA InitGood == Init => GInv
<1> SUFFICES ASSUME Init PROVE GInv
    OBVIOUS
<1>1. now \in Instants /\ now \in Quarters
    BY InstantTyped, ConstantsTyped, EarliestTyped DEF Init
<1>2. Good(grid)
    BY <1>1, NewGridGood DEF Init
<1>3. wire \in Seq(Readings)
    BY DEF Init
<1>4. meter \in [today : Nat, byHour : [VisitedHours -> Nat],
                 byQuarter : [Instants -> Nat], used : Nat]
    BY DEF Init
<1>5. TypeOK
    BY <1>1, <1>2, <1>3, <1>4 DEF Init, TypeOK, Good, NoRotation
<1> QED BY <1>2, <1>5 DEF GInv, Good, PeaksAreTopDays, RotationPaired, Init, NoRotation

LEMMA ConsumeGood == GInv /\ Consume => GInv'
<1> SUFFICES ASSUME GInv, Consume PROVE GInv'
    OBVIOUS
<1>1. /\ meter.today \in Nat /\ meter.used \in Nat /\ meter.byHour \in [VisitedHours -> Nat]
      /\ meter.byQuarter \in [Instants -> Nat] /\ now \in Instants
      /\ HourOf(now) \in VisitedHours
    BY DEF GInv, TypeOK, VisitedHours
<1>2. meter' = [today |-> meter.today + 1,
                byHour |-> [meter.byHour EXCEPT ![HourOf(now)] = @ + 1],
                byQuarter |-> [meter.byQuarter EXCEPT ![now] = @ + 1],
                used |-> meter.used + 1]
    BY <1>1 DEF Consume, GInv, TypeOK
<1>3. /\ [meter.byHour EXCEPT ![HourOf(now)] = @ + 1] \in [VisitedHours -> Nat]
      /\ [meter.byQuarter EXCEPT ![now] = @ + 1] \in [Instants -> Nat]
    BY <1>1
<1>4. meter' \in [today : Nat, byHour : [VisitedHours -> Nat],
                  byQuarter : [Instants -> Nat], used : Nat]
    BY <1>1, <1>2, <1>3
<1>5. TypeOK'
    BY <1>4 DEF Consume, GInv, TypeOK
<1> QED BY <1>5, GridKept DEF Consume

LEMMA TickGood == GInv /\ Tick => GInv'
<1> SUFFICES ASSUME GInv, Tick PROVE GInv'
    OBVIOUS
<1>1. now' \in Instants
    BY InstantTyped, EarliestTyped DEF Tick
<1>2. meter' \in [today : Nat, byHour : [VisitedHours -> Nat],
                  byQuarter : [Instants -> Nat], used : Nat]
    BY DEF Tick, GInv, TypeOK
<1>3. TypeOK'
    BY <1>1, <1>2 DEF Tick, GInv, TypeOK
<1> QED BY <1>3, GridKept DEF Tick

LEMMA MeterSendsGood == GInv /\ MeterSends => GInv'
<1> SUFFICES ASSUME GInv, MeterSends PROVE GInv'
    OBVIOUS
<1>1. ReadingsNow \subseteq Readings
    BY InstantTyped DEF GInv, TypeOK, ReadingsNow, Readings, VisitedHours
<1>2. wire' \in Seq(Readings)
    BY <1>1 DEF MeterSends, GInv, TypeOK
<1>3. gaps' \in Nat
    BY DEF MeterSends, GInv, TypeOK
<1>4. TypeOK'
    BY <1>2, <1>3 DEF MeterSends, GInv, TypeOK
<1> QED BY <1>4, GridKept DEF MeterSends

LEMMA SyncGood == GInv /\ (SyncAnswers \/ SyncFails) => GInv'
<1> SUFFICES ASSUME GInv, SyncAnswers \/ SyncFails PROVE GInv'
    OBVIOUS
<1>1. /\ nodes' \subseteq VisitedHours /\ stream' \in {"sync", "down"}
      /\ UNCHANGED <<now, meter, wire, rot, grid, starts, gaps, late, blank>>
    BY DEF SyncAnswers, SyncFails, GInv, TypeOK
<1>2. TypeOK'
    BY <1>1 DEF GInv, TypeOK
<1> QED BY <1>1, <1>2, GridKept

LEMMA ConnectGood == GInv /\ Connect => GInv'
<1> SUFFICES ASSUME GInv, Connect PROVE GInv'
    OBVIOUS
<1>1. wire' \in Seq(Readings)
    BY DEF Connect
<1>2. TypeOK'
    BY <1>1 DEF Connect, NoRotation, GInv, TypeOK
<1> QED BY <1>2, GridKept DEF Connect

LEMMA BreakGood == GInv /\ Break => GInv'
<1> SUFFICES ASSUME GInv, Break PROVE GInv'
    OBVIOUS
<1>1. wire' \in Seq(Readings)
    BY DEF Break
<1>2. TypeOK'
    BY <1>1 DEF Break, GInv, TypeOK
<1> QED BY <1>2, GridKept DEF Break

LEMMA StopGood == GInv /\ Stop => GInv'
<1> SUFFICES ASSUME GInv, Stop PROVE GInv'
    OBVIOUS
<1>1. wire' \in Seq(Readings)
    BY DEF Stop
<1>2. TypeOK'
    BY <1>1 DEF Stop, GInv, TypeOK
<1> QED BY <1>2, GridKept DEF Stop

LEMMA RestartGood == GInv /\ Restart => GInv'
<1> SUFFICES ASSUME GInv, Restart PROVE GInv'
    OBVIOUS
<1>1. Good(grid')
    BY NewGridGood, InstantTyped DEF Restart, GInv, TypeOK
<1>2. starts' \in Nat
    BY DEF Restart, GInv, TypeOK
<1>3. wire' \in Seq(Readings)
    <2>1. wire' = <<>>
        BY DEF Restart
    <2> QED BY <2>1
<1>4. TypeOK'
    BY <1>1, <1>2, <1>3 DEF Restart, GInv, TypeOK, NoRotation, Good
<1> QED BY <1>1, <1>4
       DEF GInv, Good, PeaksAreTopDays, RotationPaired, Restart, NoRotation

LEMMA SyncRecordsGood == GInv /\ (\E tie \in Days : SyncRecords(tie)) => GInv'
<1> SUFFICES ASSUME GInv, NEW tie \in Days, SyncRecords(tie) PROVE GInv'
    OBVIOUS
<1> DEFINE h == Earliest(nodes)
<1>1. h \in VisitedHours /\ h \in Hours
    BY InstantTyped, HoursAreNat, EarliestTyped DEF SyncRecords, GInv, TypeOK
<1>2. meter.byHour[h] \in Nat
    BY <1>1 DEF GInv, TypeOK
<1>3. Good(grid')
    BY <1>1, <1>2, GridGood, MaybeUpdatePeakGood DEF SyncRecords
<1>4. TypeOK'
    BY <1>3 DEF SyncRecords, GInv, TypeOK, Good
<1> QED BY <1>3, <1>4 DEF GInv, Good, PeaksAreTopDays, RotationPaired, SyncRecords

LEMMA HandleReadingGood == GInv /\ (\E tie \in Days : HandleReading(tie)) => GInv'
<1> SUFFICES ASSUME GInv, NEW tie \in Days, HandleReading(tie) PROVE GInv'
    OBVIOUS
<1> DEFINE x == Head(wire)
           r == Filled(x)
<1>1. x \in Readings /\ r \in Counted /\ wire' \in Seq(Readings)
    <2>1. x \in Readings /\ wire' \in Seq(Readings)
        BY DEF HandleReading, GInv, TypeOK
    <2> HIDE DEF x
    <2> QED BY <2>1, FilledTyped
<1> HIDE DEF r
<1>2. Good(grid')
    BY <1>1, HourPathGood, QuarterPathGood DEF HandleReading, r, Filled
<1>3. HourOf(r.stamp) \in Hours /\ r.stamp \in Quarters /\ r.today \in Nat
    BY <1>1, HourTyped DEF Counted
<1>4. /\ rot' \in [hour : Hours \cup {Nothing}, quarter : Quarters \cup {Nothing},
                   snapshot : Nat \cup {Nothing}]
      /\ rot'.quarter # Nothing => rot'.snapshot # Nothing
    <2>1. rot \in [hour : Hours \cup {Nothing}, quarter : Quarters \cup {Nothing},
                   snapshot : Nat \cup {Nothing}]
          /\ (rot.quarter # Nothing => rot.snapshot # Nothing)
        BY DEF GInv, TypeOK, RotationPaired
    <2>2. \/ rot' = [rot EXCEPT !.hour = HourOf(r.stamp)]
          \/ rot' = [hour |-> HourOf(r.stamp), quarter |-> r.stamp, snapshot |-> r.today]
        BY DEF HandleReading, r, Filled
    <2> QED BY <1>3, <2>1, <2>2, ConstantsTyped
<1>5. late' \in BOOLEAN /\ blank' \subseteq Quarters
    <2>1. blank' = blank \/ blank' = blank \cup {r.stamp}
        BY DEF HandleReading, r, Filled
    <2> QED BY <1>3, <2>1 DEF HandleReading, GInv, TypeOK
<1>6. TypeOK'
    BY <1>1, <1>2, <1>4, <1>5 DEF HandleReading, GInv, TypeOK, Good
<1> QED BY <1>2, <1>4, <1>6 DEF GInv, Good, PeaksAreTopDays, RotationPaired

LEMMA GInvInductive == GInv /\ [Next]_vars => GInv'
<1> SUFFICES ASSUME GInv, [Next]_vars PROVE GInv'
    OBVIOUS
<1>1. CASE UNCHANGED vars
    BY <1>1 DEF vars, GInv, TypeOK, PeaksAreTopDays, RotationPaired
<1> QED BY <1>1, ConsumeGood, TickGood, MeterSendsGood, SyncGood, SyncRecordsGood,
           ConnectGood, BreakGood, StopGood, RestartGood, HandleReadingGood
           DEF Next

-----------------------------------------------------------------------------
(* Theorems. *)

\* The clock, the readings, the rotation and the whole grid record keep their
\* types (GridState of grid.rs and WsRotationState of tibber.rs).
THEOREM TypeCorrect == Spec => []TypeOK
<1>1. GInv => TypeOK
    BY DEF GInv
<1> QED BY <1>1, InitGood, GInvInductive, PTL DEF Spec

\* maybe_update_peak keeps the dearest days of the month for every number of
\* days, every calendar and every order in which hours are offered.
THEOREM TopDaysCorrect == Spec => []PeaksAreTopDays
<1>1. GInv => PeaksAreTopDays
    BY DEF GInv
<1> QED BY <1>1, InitGood, GInvInductive, PTL DEF Spec

-----------------------------------------------------------------------------
(* The rolling window of quarters. *)

Entries == [at : Quarters, kwh : Nat]

\* Oldest first, without a double, all before quarter q.
InOrder(s, q) ==
    /\ \A i \in 1..Len(s) - 1 : s[i].at < s[i + 1].at
    /\ Len(s) > 0 => s[Len(s)].at < q

\* Dropping the oldest entries keeps the window in order.
LEMMA RolledInOrder ==
    ASSUME NEW E \in SUBSET Entries, NEW s \in Seq(E), NEW q \in Nat, InOrder(s, q)
    PROVE  /\ Rolled(s) \in Seq(E) /\ InOrder(Rolled(s), q)
           /\ Len(Rolled(s)) <= MaxQuarters
<1>1. MaxQuarters \in Nat \ {0} /\ Len(s) \in Nat
    BY GridStateAssumption
<1>2. CASE Len(s) <= MaxQuarters
    BY <1>1, <1>2 DEF Rolled
<1>3. CASE Len(s) > MaxQuarters
    <2> DEFINE k == Len(s) - MaxQuarters
               t == SubSeq(s, k + 1, Len(s))
    <2>1. k \in Nat /\ k + MaxQuarters = Len(s) /\ Rolled(s) = t
        BY <1>1, <1>3 DEF Rolled
    <2>2. /\ t \in Seq(E) /\ Len(t) = MaxQuarters
          /\ \A i \in 1..MaxQuarters : t[i] = s[k + i]
        <3> HIDE DEF k
        <3> DEFINE n == Len(s)
        <3>1. /\ n \in Nat /\ k + 1 \in 1..n + 1 /\ n - (k + 1) + 1 = MaxQuarters
              /\ \A i \in 1..n : s[i] \in E
            BY <1>1, <2>1
        <3>2. Len(t) = MaxQuarters
            BY <1>1, <2>1, <3>1
        <3>3. \A i \in 1..MaxQuarters : t[i] = s[k + 1 + i - 1]
            BY <1>1, <2>1, <3>1
        <3>4. \A i \in 1..MaxQuarters : k + 1 + i - 1 = k + i /\ k + i \in 1..n
            BY <1>1, <2>1
        <3>5. \A i \in 1..MaxQuarters : t[i] = s[k + i]
            BY <3>3, <3>4
        <3>6. t \in Seq(E)
            BY <1>1, <2>1, <3>1
        <3> QED BY <3>2, <3>5, <3>6
    <2> HIDE DEF t, k
    <2>3. ASSUME NEW i \in 1..Len(t) - 1 PROVE t[i].at < t[i + 1].at
        <3>1. /\ k + i \in 1..Len(s) - 1 /\ i \in 1..MaxQuarters /\ i + 1 \in 1..MaxQuarters
              /\ k + (i + 1) = (k + i) + 1
            BY <1>1, <2>1, <2>2
        <3> QED BY <2>2, <3>1 DEF InOrder
    <2>4. t[Len(t)].at < q
        BY <1>1, <2>1, <2>2 DEF InOrder
    <2> QED BY <2>1, <2>2, <2>3, <2>4 DEF InOrder
<1> QED BY <1>1, <1>2, <1>3

\* The running quarter goes behind all others.
LEMMA AppendInOrder ==
    ASSUME NEW E \in SUBSET Entries, NEW s \in Seq(E), NEW e \in E, NEW q \in Nat,
           InOrder(s, e.at), e.at < q
    PROVE  Append(s, e) \in Seq(E) /\ InOrder(Append(s, e), q)
<1> DEFINE t == Append(s, e)
<1>1. /\ t \in Seq(E) /\ Len(t) = Len(s) + 1 /\ Len(s) \in Nat
      /\ \A i \in 1..Len(s) : t[i] = s[i]
      /\ t[Len(s) + 1] = e
    OBVIOUS
<1> HIDE DEF t
<1>2. ASSUME NEW i \in 1..Len(t) - 1 PROVE t[i].at < t[i + 1].at
    <2>1. CASE i = Len(s)
        BY <1>1, <2>1 DEF InOrder
    <2>2. CASE i # Len(s)
        <3>1. i \in 1..Len(s) - 1 /\ i \in 1..Len(s) /\ i + 1 \in 1..Len(s)
            BY <1>1, <2>2
        <3> QED BY <1>1, <3>1 DEF InOrder
    <2> QED BY <2>1, <2>2
<1>3. InOrder(t, q)
    BY <1>1, <1>2 DEF InOrder
<1> QED BY <1>1, <1>3 DEF t

\* A quarter that is missing finds its place.
LEMMA InsertedInOrder ==
    ASSUME NEW E \in SUBSET Entries, NEW s \in Seq(E), NEW e \in E, NEW q \in Nat,
           InOrder(s, q), e.at < q, \A i \in 1..Len(s) : s[i].at # e.at
    PROVE  Inserted(s, e) \in Seq(E) /\ InOrder(Inserted(s, e), q)
<1> DEFINE n == Len(s)
           later == {i \in 1..n : s[i].at > e.at}
<1>1. /\ n \in Nat /\ e.at \in Nat /\ \A i \in 1..n : s[i] \in E /\ s[i].at \in Nat
      /\ later \in SUBSET Nat
    BY HourTyped DEF Entries
<1>2. CASE later = {}
    <2>1. \A i \in 1..n : s[i].at < e.at
        BY <1>1, <1>2
    <2>2. InOrder(s, e.at)
        BY <1>1, <2>1 DEF InOrder
    <2>3. Inserted(s, e) = Append(s, e)
        BY <1>2 DEF Inserted
    <2> QED BY <2>2, <2>3, AppendInOrder
<1>3. CASE later # {}
    <2> DEFINE p == Min(later)
               t == InsertAt(s, p, e)
    <2>1. p \in later /\ \A i \in later : p <= i
        <3> HIDE DEF later
        <3> QED BY <1>1, <1>3, LeastNat DEF Min
    <2>2. p \in 1..n /\ s[p].at > e.at /\ \A i \in 1..n : i < p => s[i].at < e.at
        <3>1. p \in 1..n /\ s[p].at > e.at
            BY <2>1
        <3>2. ASSUME NEW i \in 1..n, i < p PROVE s[i].at < e.at
            <4>1. i \notin later
                <5> HIDE DEF p, later
                <5> QED BY <1>1, <2>1, <3>1, <3>2
            <4>2. ~(s[i].at > e.at)
                BY <4>1
            <4> QED BY <1>1, <4>2
        <3> QED BY <3>1, <3>2
    <2>3. Inserted(s, e) = t
        BY <1>3 DEF Inserted
    <2> HIDE DEF later, p
    <2>4. /\ t \in Seq(E) /\ Len(t) = n + 1
          /\ \A i \in 1..n : i < p => t[i] = s[i]
          /\ t[p] = e
          /\ \A i \in 1..n : i >= p => t[i + 1] = s[i]
        BY <1>1, <2>2 DEF InsertAt
    <2> HIDE DEF t
    <2>5. ASSUME NEW i \in 1..Len(t) - 1 PROVE t[i].at < t[i + 1].at
        <3>1. CASE i + 1 < p
            <4>1. i \in 1..n /\ i + 1 \in 1..n /\ i \in 1..n - 1 /\ i < p /\ p <= n
                BY <1>1, <2>2, <2>4, <3>1
            <4>2. t[i] = s[i] /\ t[i + 1] = s[i + 1]
                BY <2>4, <3>1, <4>1
            <4> QED BY <4>1, <4>2 DEF InOrder
        <3>2. CASE i + 1 = p
            <4>1. i \in 1..n /\ i < p
                BY <1>1, <2>2, <2>4, <3>2
            <4> QED BY <2>2, <2>4, <3>2, <4>1
        <3>3. CASE i = p
            BY <1>1, <2>2, <2>4, <3>3
        <3>4. CASE i > p
            <4>1. /\ i - 1 \in 1..n - 1 /\ i - 1 \in 1..n /\ i \in 1..n
                  /\ i - 1 >= p /\ (i - 1) + 1 = i
                BY <1>1, <2>2, <2>4, <3>4
            <4>2. t[i] = s[i - 1] /\ t[i + 1] = s[i]
                <5> DEFINE j == i - 1
                <5>1. j \in 1..n /\ j >= p /\ j + 1 = i
                    BY <4>1
                <5> HIDE DEF j
                <5>2. t[j + 1] = s[j]
                    BY <2>4, <5>1
                <5>3. i >= p
                    BY <2>2, <3>4
                <5>4. t[i + 1] = s[i]
                    BY <2>4, <4>1, <5>3
                <5>5. t[i] = s[j]
                    BY <5>1, <5>2
                <5> QED BY <5>4, <5>5 DEF j
            <4>3. s[i - 1].at < s[(i - 1) + 1].at
                BY <4>1 DEF InOrder
            <4> QED BY <4>1, <4>2, <4>3
        <3> QED BY <1>1, <2>2, <2>4, <3>1, <3>2, <3>3, <3>4
    <2>6. t[Len(t)].at < q
        <3>1. n \in 1..n /\ n >= p /\ s[n].at < q
            BY <1>1, <2>2 DEF InOrder
        <3> QED BY <2>4, <3>1
    <2> QED BY <2>3, <2>4, <2>5, <2>6 DEF InOrder
<1> QED BY <1>2, <1>3

-----------------------------------------------------------------------------
(* What the operations of the record leave alone, and which peaks they can *)
(* leave behind: old ones and the one that is offered.                     *)

AllIn(peaks, S) == \A d \in DOMAIN peaks : peaks[d] \in S

SameWindow(G, g) ==
    G.quarters = g.quarters /\ G.quarter = g.quarter /\ G.quarterKwh = g.quarterKwh

LEMMA NewPeaksIn ==
    ASSUME NEW S, NEW peaks, Peaks(peaks), AllIn(peaks, S), NEW day, NEW peak \in S, NEW tie
    PROVE  AllIn(NewPeaks(peaks, day, peak, tie), S)
<1>1. ASSUME NEW f, AllIn(f, S) PROVE AllIn(With(f, day, peak), S)
    BY <1>1 DEF AllIn, With
<1>2. AllIn(Without(peaks, LowestDay(peaks, tie)), S)
    BY DEF AllIn, Without
<1>3. \/ NewPeaks(peaks, day, peak, tie) = peaks
      \/ NewPeaks(peaks, day, peak, tie) = With(peaks, day, peak)
      \/ NewPeaks(peaks, day, peak, tie) =
            With(Without(peaks, LowestDay(peaks, tie)), day, peak)
    <2>1. Cardinality(DOMAIN peaks) \in Nat /\ TopDays \in Nat
        BY KeptFinite, ConstantsTyped DEF Peaks
    <2>2. Cardinality(DOMAIN peaks) < TopDays \/ Cardinality(DOMAIN peaks) >= TopDays
        BY <2>1
    <2> QED BY <2>2 DEF NewPeaks
<1> QED BY <1>1, <1>2, <1>3

LEMMA EnterMonthKeeps ==
    ASSUME NEW g, Good(g), NEW month
    PROVE  /\ SameWindow(EnterMonth(g, month), g)
           /\ EnterMonth(g, month).hour = g.hour
           /\ EnterMonth(g, month).hourKwh = g.hourKwh
           /\ \A S : AllIn(g.peaks, S) => AllIn(EnterMonth(g, month).peaks, S)
<1>1. CASE month = g.month
    BY <1>1 DEF EnterMonth, SameWindow
<1>2. CASE month # g.month
    <2> DEFINE G == [g EXCEPT !.peaks = NoPeaks, !.best = NoPeaks, !.month = month]
    <2>1. /\ G.peaks = NoPeaks /\ G.hour = g.hour /\ G.hourKwh = g.hourKwh
          /\ G.quarters = g.quarters /\ G.quarter = g.quarter /\ G.quarterKwh = g.quarterKwh
        BY GoodFields DEF GridFields
    <2>2. EnterMonth(g, month) = G
        BY <1>2 DEF EnterMonth
    <2>3. \A S : AllIn(NoPeaks, S)
        BY DEF AllIn, NoPeaks
    <2> HIDE DEF G
    <2> QED BY <2>1, <2>2, <2>3 DEF SameWindow
<1> QED BY <1>1, <1>2

LEMMA MaybeUpdatePeakKeeps ==
    ASSUME NEW g, Good(g), NEW hour \in Hours, NEW kwh \in Nat, NEW tie
    PROVE  LET G == MaybeUpdatePeak(g, hour, kwh, tie)
           IN  /\ SameWindow(G, g) /\ G.hour = g.hour /\ G.hourKwh = g.hourKwh
               /\ \A S : AllIn(g.peaks, S) /\ [hour |-> hour, kwh |-> kwh] \in S
                            => AllIn(G.peaks, S)
<1> DEFINE day  == DayOf(hour)
           in   == EnterMonth(g, MonthOf(day))
           peak == [hour |-> hour, kwh |-> kwh]
           new  == NewPeaks(in.peaks, day, peak, tie)
           high == Raised(in.best, day, kwh)
           G    == [in EXCEPT !.peaks = new, !.best = high]
<1>1. Good(in)
    BY MonthTyped, EnterMonthGood
<1>2. /\ SameWindow(in, g) /\ in.hour = g.hour /\ in.hourKwh = g.hourKwh
      /\ \A S : AllIn(g.peaks, S) => AllIn(in.peaks, S)
    BY EnterMonthKeeps
<1>3. MaybeUpdatePeak(g, hour, kwh, tie) = IF ~IsHigh(hour) THEN g ELSE G
    BY DEF MaybeUpdatePeak
<1> HIDE DEF in, peak
<1>4. \A S : AllIn(g.peaks, S) /\ peak \in S => AllIn(new, S)
    BY <1>1, <1>2, GoodParts, NewPeaksIn
<1> HIDE DEF new, high
<1>5. /\ G.peaks = new /\ G.hour = in.hour /\ G.hourKwh = in.hourKwh
      /\ G.quarters = in.quarters /\ G.quarter = in.quarter /\ G.quarterKwh = in.quarterKwh
    BY <1>1, GoodFields DEF GridFields
<1> HIDE DEF G
<1>6. /\ SameWindow(G, g) /\ G.hour = g.hour /\ G.hourKwh = g.hourKwh
      /\ \A S : AllIn(g.peaks, S) /\ peak \in S => AllIn(G.peaks, S)
    BY <1>2, <1>4, <1>5 DEF SameWindow
<1>7. SameWindow(g, g)
    BY DEF SameWindow
<1> QED BY <1>3, <1>6, <1>7 DEF peak

LEMMA UpdateCurrentHourKeeps ==
    ASSUME NEW g, Good(g), NEW at \in Quarters, NEW kwh \in Nat, NEW tie
    PROVE  LET G == UpdateCurrentHour(g, at, kwh, tie)
           IN  /\ SameWindow(G, g) /\ G.hour = HourOf(at) /\ G.hourKwh = kwh
               /\ \A S : /\ AllIn(g.peaks, S)
                         /\ g.hourKwh # Nothing => [hour |-> g.hour, kwh |-> g.hourKwh] \in S
                         => AllIn(G.peaks, S)
<1> DEFINE left == IF g.hourKwh = Nothing THEN g
                   ELSE MaybeUpdatePeak(g, g.hour, g.hourKwh, tie)
           turned == EnterMonth(left, MonthOf(DayOf(HourOf(at))))
           H == [g EXCEPT !.hourKwh = kwh]
           I == [turned EXCEPT !.hour = HourOf(at), !.hourKwh = kwh]
           peak == [hour |-> g.hour, kwh |-> g.hourKwh]
           known == g.hourKwh # Nothing
<1>1. Good(left) /\ SameWindow(left, g)
      /\ \A S : AllIn(g.peaks, S) /\ (known => peak \in S) => AllIn(left.peaks, S)
    <2>1. CASE g.hourKwh = Nothing
        BY <2>1 DEF SameWindow
    <2>2. CASE g.hourKwh # Nothing
        <3>1. g.hour \in Hours /\ g.hourKwh \in Nat
            BY <2>2, GoodFields
        <3>2. Good(left)
            BY <2>2, <3>1, MaybeUpdatePeakGood
        <3> HIDE DEF peak
        <3>3. SameWindow(left, g)
              /\ \A S : AllIn(g.peaks, S) /\ peak \in S => AllIn(left.peaks, S)
            BY <2>2, <3>1, MaybeUpdatePeakKeeps DEF peak
        <3> QED BY <2>2, <3>2, <3>3
    <2> QED BY <2>1, <2>2
<1> HIDE DEF left, peak
<1>2. MonthOf(DayOf(HourOf(at))) \in Months
    BY HourTyped, MonthTyped
<1>3. Good(turned)
    BY <1>1, <1>2, EnterMonthGood
<1>4. SameWindow(turned, left) /\ \A S : AllIn(left.peaks, S) => AllIn(turned.peaks, S)
    BY <1>1, EnterMonthKeeps
<1> HIDE DEF turned
<1>5. /\ H.peaks = g.peaks /\ H.hour = g.hour /\ H.hourKwh = kwh
      /\ H.quarters = g.quarters /\ H.quarter = g.quarter /\ H.quarterKwh = g.quarterKwh
    BY GoodFields DEF GridFields
<1>6. /\ I.peaks = turned.peaks /\ I.hour = HourOf(at) /\ I.hourKwh = kwh
      /\ I.quarters = turned.quarters /\ I.quarter = turned.quarter
      /\ I.quarterKwh = turned.quarterKwh
    BY <1>3, GoodFields DEF GridFields
<1>7. UpdateCurrentHour(g, at, kwh, tie) = IF HourOf(at) = g.hour THEN H ELSE I
    BY DEF UpdateCurrentHour, left, turned
<1> HIDE DEF H, I, known
<1>8. /\ SameWindow(I, g) /\ I.hour = HourOf(at) /\ I.hourKwh = kwh
      /\ \A S : AllIn(g.peaks, S) /\ (known => peak \in S) => AllIn(I.peaks, S)
    BY <1>1, <1>4, <1>6 DEF SameWindow
<1>9. CASE HourOf(at) = g.hour
    BY <1>5, <1>7, <1>9 DEF SameWindow
<1>10. CASE HourOf(at) # g.hour
    BY <1>7, <1>8, <1>10 DEF peak, known
<1> QED BY <1>9, <1>10

\* The window holds entries of E, oldest first, all before the running quarter.
Window(g, E) ==
    /\ g.quarters \in Seq(E) /\ InOrder(g.quarters, g.quarter)
    /\ Len(g.quarters) <= MaxQuarters

SameHour(G, g) == G.peaks = g.peaks /\ G.hour = g.hour /\ G.hourKwh = g.hourKwh

\* A quarter filed late has its place before the running one.
LEMMA RecordQuarterKeeps ==
    ASSUME NEW E \in SUBSET Entries, NEW g, Good(g), Window(g, E),
           NEW q \in Quarters, q <= g.quarter, NEW kwh,
           q = g.quarter \/ Entry(q, kwh) \in E
    PROVE  LET G == RecordQuarter(g, q, kwh)
           IN  /\ Window(G, E) /\ SameHour(G, g)
               /\ G.quarter = g.quarter /\ G.quarterKwh = g.quarterKwh
<1> DEFINE there == q = g.quarter \/ \E i \in DOMAIN g.quarters : g.quarters[i].at = q
           e == Entry(q, kwh)
           s == Inserted(g.quarters, e)
           H == [g EXCEPT !.quarters = Rolled(s)]
<1>1. RecordQuarter(g, q, kwh) = IF there THEN g ELSE H
    BY DEF RecordQuarter
<1>2. CASE there
    BY <1>1, <1>2 DEF SameHour
<1>3. CASE ~there
    <2>1. /\ g.quarters \in Seq(E) /\ InOrder(g.quarters, g.quarter)
          /\ g.quarter \in Nat /\ q \in Nat /\ e \in E /\ e.at = q
        BY <1>3, HourTyped, GoodFields DEF Window, Entry
    <2>2. e.at < g.quarter /\ \A i \in 1..Len(g.quarters) : g.quarters[i].at # e.at
        BY <1>3, <2>1
    <2> HIDE DEF e, there
    <2>3. s \in Seq(E) /\ InOrder(s, g.quarter)
        BY <2>1, <2>2, InsertedInOrder
    <2> HIDE DEF s
    <2>4. Rolled(s) \in Seq(E) /\ InOrder(Rolled(s), g.quarter) /\ Len(Rolled(s)) <= MaxQuarters
        BY <2>1, <2>3, RolledInOrder
    <2>5. /\ H.quarters = Rolled(s) /\ H.peaks = g.peaks /\ H.hour = g.hour
          /\ H.hourKwh = g.hourKwh /\ H.quarter = g.quarter /\ H.quarterKwh = g.quarterKwh
        BY GoodFields DEF GridFields
    <2> HIDE DEF H
    <2> QED BY <1>1, <1>3, <2>4, <2>5 DEF Window, SameHour
<1> QED BY <1>2, <1>3

\* The quarter that is left is filed, and the new one is behind it.
LEMMA UpdateCurrentQuarterKeeps ==
    ASSUME NEW E \in SUBSET Entries, NEW g, Good(g), Window(g, E),
           NEW at \in Quarters, g.quarter <= at, NEW kwh,
           Entry(g.quarter, g.quarterKwh) \in E
    PROVE  LET G == UpdateCurrentQuarter(g, at, kwh)
           IN  /\ Window(G, E) /\ SameHour(G, g)
               /\ G.quarter = at /\ G.quarterKwh = kwh
<1> DEFINE e == Entry(g.quarter, g.quarterKwh)
           s == Append(g.quarters, e)
           H == [g EXCEPT !.quarterKwh = kwh]
           I == [g EXCEPT !.quarters = Rolled(s), !.quarter = at, !.quarterKwh = kwh]
<1>1. UpdateCurrentQuarter(g, at, kwh) = IF at = g.quarter THEN H ELSE I
    BY DEF UpdateCurrentQuarter
<1>2. /\ g.quarters \in Seq(E) /\ InOrder(g.quarters, g.quarter)
      /\ g.quarter \in Nat /\ at \in Nat /\ e \in E /\ e.at = g.quarter
    BY HourTyped, GoodFields DEF Window, Entry
<1>3. CASE at = g.quarter
    <2>1. /\ H.quarters = g.quarters /\ H.peaks = g.peaks /\ H.hour = g.hour
          /\ H.hourKwh = g.hourKwh /\ H.quarter = g.quarter /\ H.quarterKwh = kwh
        BY GoodFields DEF GridFields
    <2> HIDE DEF H
    <2> QED BY <1>1, <1>3, <2>1 DEF Window, SameHour
<1>4. CASE at # g.quarter
    <2> HIDE DEF e
    <2>1. g.quarter < at
        BY <1>2, <1>4
    <2>2. s \in Seq(E) /\ InOrder(s, at)
        BY <1>2, <2>1, AppendInOrder
    <2> HIDE DEF s
    <2>3. Rolled(s) \in Seq(E) /\ InOrder(Rolled(s), at) /\ Len(Rolled(s)) <= MaxQuarters
        BY <1>2, <2>2, RolledInOrder
    <2>4. /\ I.quarters = Rolled(s) /\ I.peaks = g.peaks /\ I.hour = g.hour
          /\ I.hourKwh = g.hourKwh /\ I.quarter = at /\ I.quarterKwh = kwh
        BY GoodFields DEF GridFields
    <2> HIDE DEF I
    <2> QED BY <1>1, <1>4, <2>3, <2>4 DEF Window, SameHour
<1> QED BY <1>3, <1>4

-----------------------------------------------------------------------------
(* What a reading does to the record. *)

LEMMA HourPathKeeps ==
    ASSUME GInv, NEW r \in Counted, NEW tie
    PROVE  LET G == HourPath(r, tie)
           IN  /\ SameWindow(G, grid) /\ G.hour = HourOf(now) /\ G.hourKwh = r.hour
               /\ \A S : /\ AllIn(grid.peaks, S)
                         /\ grid.hourKwh # Nothing =>
                              /\ [hour |-> grid.hour, kwh |-> grid.hourKwh] \in S
                              /\ rot.hour # Nothing =>
                                    [hour |-> rot.hour, kwh |-> grid.hourKwh] \in S
                         => AllIn(G.peaks, S)
<1> DEFINE U == UpdateCurrentHour(grid, now, r.hour, tie)
           M == MaybeUpdatePeak(U, rot.hour, grid.hourKwh, tie)
           c == rot.hour # Nothing /\ HourOf(r.stamp) > rot.hour /\ grid.hourKwh # Nothing
           p == [hour |-> grid.hour, kwh |-> grid.hourKwh]
           l == [hour |-> rot.hour, kwh |-> grid.hourKwh]
           k == grid.hourKwh # Nothing
<1>1. Good(grid) /\ now \in Quarters /\ r.hour \in Nat
    BY GridGood, InstantTyped DEF GInv, TypeOK, Counted
<1>2. Good(U)
    BY <1>1, UpdateCurrentHourGood
<1>3. /\ SameWindow(U, grid) /\ U.hour = HourOf(now) /\ U.hourKwh = r.hour
      /\ \A S : AllIn(grid.peaks, S) /\ (k => p \in S) => AllIn(U.peaks, S)
    BY <1>1, UpdateCurrentHourKeeps
<1>4. HourPath(r, tie) = IF c THEN M ELSE U
    BY DEF HourPath
<1> HIDE DEF U
<1>5. CASE c
    <2>1. rot.hour \in Hours /\ grid.hourKwh \in Nat /\ k
        BY <1>1, <1>5, GoodFields DEF GInv, TypeOK
    <2> HIDE DEF l, k
    <2>2. /\ SameWindow(M, U) /\ M.hour = U.hour /\ M.hourKwh = U.hourKwh
          /\ \A S : AllIn(U.peaks, S) /\ l \in S => AllIn(M.peaks, S)
        BY <1>2, <2>1, MaybeUpdatePeakKeeps DEF l
    <2> HIDE DEF M, p
    <2>3. \A S : AllIn(grid.peaks, S) /\ p \in S /\ l \in S => AllIn(M.peaks, S)
        BY <1>3, <2>1, <2>2
    <2>4. SameWindow(M, grid) /\ M.hour = HourOf(now) /\ M.hourKwh = r.hour
        BY <1>3, <2>2 DEF SameWindow
    <2>5. rot.hour # Nothing /\ grid.hourKwh # Nothing
        BY <1>5
    <2> QED BY <1>4, <1>5, <2>3, <2>4, <2>5 DEF p, l
<1>6. CASE ~c
    <2> HIDE DEF c
    <2>1. HourPath(r, tie) = U
        BY <1>4, <1>6
    <2> QED BY <1>3, <2>1
<1> QED BY <1>5, <1>6

LEMMA QuarterPathKeeps ==
    ASSUME GInv, NEW r \in Counted, NEW E \in SUBSET Entries, NEW g, Good(g), Window(g, E),
           g.quarter <= now, Entry(g.quarter, g.quarterKwh) \in E,
           rot.quarter # Nothing =>
              rot.quarter <= g.quarter /\ (rot.quarter = g.quarter \/ E = Entries)
    PROVE  LET G == QuarterPath(g, r)
           IN  /\ Window(G, E) /\ SameHour(G, g) /\ G.quarter = now
               /\ G.quarterKwh = IF rot.quarter # Nothing /\ SameQuarter(r)
                                 THEN r.today - rot.snapshot ELSE 0
<1>1. now \in Quarters /\ r.today \in Nat
    BY InstantTyped DEF GInv, TypeOK, Counted
<1>2. CASE rot.quarter = Nothing
    <2>1. QuarterPath(g, r) = UpdateCurrentQuarter(g, now, 0)
        BY <1>2 DEF QuarterPath
    <2> QED BY <1>1, <1>2, <2>1, UpdateCurrentQuarterKeeps
<1>3. CASE rot.quarter # Nothing /\ SameQuarter(r)
    <2>1. QuarterPath(g, r) = UpdateCurrentQuarter(g, now, r.today - rot.snapshot)
        BY <1>3 DEF QuarterPath
    <2> QED BY <1>1, <1>3, <2>1, UpdateCurrentQuarterKeeps
<1>4. CASE rot.quarter # Nothing /\ ~SameQuarter(r)
    <2> DEFINE C == CloseQuarter(g, r)
               d == PriorDelta(g, r)
    <2>1. QuarterPath(g, r) = UpdateCurrentQuarter(C, now, 0)
        BY <1>4 DEF QuarterPath
    <2>2. rot.quarter \in Quarters /\ rot.snapshot \in Nat
        BY <1>4 DEF GInv, TypeOK, RotationPaired
    <2>3. d \in Nat
        <3>1. g.quarterKwh \in Nat
            BY GoodFields
        <3> QED BY <1>1, <2>2, <3>1 DEF PriorDelta
    <2>4. Good(C)
        BY RecordQuarterGood DEF CloseQuarter
    <2>5. /\ Window(C, E) /\ SameHour(C, g)
          /\ C.quarter = g.quarter /\ C.quarterKwh = g.quarterKwh
        <3> DEFINE R == RecordQuarter(g, rot.quarter, d)
        <3>1. C = IF d > 0 THEN R ELSE g
            BY DEF CloseQuarter
        <3>2. Entry(rot.quarter, d) \in Entries
            BY <2>2, <2>3 DEF Entry, Entries
        <3>3. rot.quarter = g.quarter \/ Entry(rot.quarter, d) \in E
            BY <1>4, <3>2
        <3> HIDE DEF d
        <3>4. /\ Window(R, E) /\ SameHour(R, g)
              /\ R.quarter = g.quarter /\ R.quarterKwh = g.quarterKwh
            BY <1>4, <2>2, <3>3, RecordQuarterKeeps
        <3> HIDE DEF R, C
        <3> QED BY <3>1, <3>4 DEF SameHour
    <2> HIDE DEF C
    <2>6. /\ Window(UpdateCurrentQuarter(C, now, 0), E)
          /\ SameHour(UpdateCurrentQuarter(C, now, 0), C)
          /\ UpdateCurrentQuarter(C, now, 0).quarter = now
          /\ UpdateCurrentQuarter(C, now, 0).quarterKwh = 0
        BY <1>1, <2>4, <2>5, UpdateCurrentQuarterKeeps
    <2> QED BY <1>4, <2>1, <2>5, <2>6 DEF SameHour
<1> QED BY <1>2, <1>3, <1>4

-----------------------------------------------------------------------------
(* The invariant of the curve. *)

\* What really was used in an hour or a quarter bounds what may be told of it;
\* a quarter with a reading that lacked the day's counter may tell of anything.
Used  == {p \in [hour : VisitedHours, kwh : Nat] : p.kwh <= meter.byHour[p.hour]}
Spent == {e \in Entries : e.at \in blank \/ (e.at \in Instants /\ e.kwh <= meter.byQuarter[e.at])}
Told  == IF late THEN Entries ELSE Spent

\* What the counter showed when the running quarter began.
Base == meter.today - meter.byQuarter[now]

\* A reading is no younger than the clock; what one of the running quarter shows
\* is the counter between the quarter's start and now.
OnTheWay(r) ==
    /\ r.stamp <= now
    /\ r.stamp = now /\ r.today # Nothing => Base <= r.today /\ r.today <= meter.today
    /\ r.stamp = now /\ r.hour # Nothing => r.hour <= meter.byHour[HourOf(now)]

MeterInv ==
    /\ \A q \in Instants : q > now => meter.byQuarter[q] = 0
    /\ Base >= 0
    /\ \A i \in 1..Len(wire) : OnTheWay(wire[i])

\* The rotation's quarter is no later than the record's, the record's no later
\* than the clock; a rotation of the running quarter began within it, unless a
\* reading of the quarter lacked the day's counter.
WindowInv ==
    /\ Window(grid, Told)
    /\ grid.quarter <= now
    /\ rot.quarter # Nothing => rot.quarter <= grid.quarter
    /\ rot.quarter = now /\ now \notin blank => Base <= rot.snapshot

\* While nothing came late, the record and the rotation speak of the same hour
\* and quarter, and the record holds no more than was used.
TruthInv ==
    ~late => /\ AllIn(grid.peaks, Used)
             /\ grid.hourKwh # Nothing => [hour |-> grid.hour, kwh |-> grid.hourKwh] \in Used
             /\ Entry(grid.quarter, grid.quarterKwh) \in Spent
             /\ rot.hour # Nothing => rot.hour = grid.hour
             /\ rot.quarter # Nothing => rot.quarter = grid.quarter

CurveInv == GInv /\ MeterInv /\ WindowInv /\ TruthInv

LEMMA MeterTyped ==
    ASSUME TypeOK
    PROVE  /\ meter.today \in Nat /\ meter.byHour \in [VisitedHours -> Nat]
           /\ meter.byQuarter \in [Instants -> Nat] /\ now \in Instants /\ now \in Nat
           /\ HourOf(now) \in VisitedHours /\ meter.byQuarter[now] \in Nat
           /\ meter.byHour[HourOf(now)] \in Nat /\ Base \in Int
<1>1. /\ meter.today \in Nat /\ meter.byHour \in [VisitedHours -> Nat]
      /\ meter.byQuarter \in [Instants -> Nat] /\ now \in Instants
    BY DEF TypeOK
<1>2. HourOf(now) \in VisitedHours
    BY <1>1 DEF VisitedHours
<1>3. now \in Nat
    BY <1>1, InstantTyped
<1> QED BY <1>1, <1>2, <1>3 DEF Base

\* More can be told when more was used.
LEMMA TruthGrows ==
    ASSUME TypeOK, TypeOK',
           \A h \in VisitedHours : meter.byHour[h] <= meter'.byHour[h],
           \A q \in Instants : meter.byQuarter[q] <= meter'.byQuarter[q],
           UNCHANGED <<grid, late, blank>>, UNCHANGED rot \/ rot' = NoRotation,
           TruthInv, Window(grid, Told)
    PROVE  TruthInv' /\ Window(grid', Told')
<1>1. /\ meter.byHour \in [VisitedHours -> Nat] /\ meter.byQuarter \in [Instants -> Nat]
      /\ meter'.byHour \in [VisitedHours -> Nat] /\ meter'.byQuarter \in [Instants -> Nat]
    BY DEF TypeOK
<1>2. Used \subseteq Used'
    BY <1>1 DEF Used
<1>3. Spent \subseteq Spent'
    <2>1. ASSUME NEW e \in Spent PROVE e \in Spent'
        <3>1. e \in Entries /\ e.kwh \in Nat
              /\ (e.at \in blank \/ (e.at \in Instants /\ e.kwh <= meter.byQuarter[e.at]))
            BY DEF Spent, Entries
        <3>2. e.at \in Instants /\ e.kwh <= meter.byQuarter[e.at]
              => e.kwh <= meter'.byQuarter[e.at]
            BY <1>1, <3>1
        <3> QED BY <3>1, <3>2 DEF Spent
    <2> QED BY <2>1
<1>4. Told \subseteq Told'
    BY <1>3 DEF Told
<1>5. Window(grid', Told')
    BY <1>4 DEF Window
<1>6. TruthInv'
    BY <1>2, <1>3 DEF TruthInv, AllIn, NoRotation
<1> QED BY <1>5, <1>6

\* Steps that leave clock and meter alone and drop readings, or none.
LEMMA CurveKept ==
    ASSUME CurveInv, GInv', UNCHANGED <<now, meter, grid, late, blank>>,
           UNCHANGED rot \/ rot' = NoRotation,
           UNCHANGED wire \/ wire' = <<>>
    PROVE  CurveInv'
<1>1. TypeOK /\ TypeOK'
    BY DEF CurveInv, GInv
<1>2. TruthInv' /\ Window(grid', Told')
    <2>1. /\ \A h \in VisitedHours : meter.byHour[h] <= meter'.byHour[h]
          /\ \A q \in Instants : meter.byQuarter[q] <= meter'.byQuarter[q]
        BY <1>1, MeterTyped
    <2>2. TruthInv /\ Window(grid, Told)
        BY DEF CurveInv, WindowInv
    <2>3. UNCHANGED <<grid, late, blank>> /\ (UNCHANGED rot \/ rot' = NoRotation)
        OBVIOUS
    <2> QED BY <1>1, <2>1, <2>2, <2>3, TruthGrows
<1>3. MeterInv'
    <2>1. wire' = <<>> => 1..Len(wire') = {}
        OBVIOUS
    <2> QED BY <2>1 DEF CurveInv, MeterInv, Base, OnTheWay
<1>4. now \in Nat /\ Nothing \notin Nat
    BY <1>1, MeterTyped, ConstantsTyped
<1>5. WindowInv'
    BY <1>2, <1>4 DEF CurveInv, WindowInv, Base, NoRotation
<1> QED BY <1>2, <1>3, <1>5 DEF CurveInv

LEMMA NewGridTrue ==
    ASSUME TypeOK, MeterInv, late' = FALSE, grid' = NewGrid(now), rot' = NoRotation,
           UNCHANGED <<now, meter>>
    PROVE  WindowInv' /\ TruthInv'
<1>1. now \in Nat /\ now \in Instants /\ now \in Quarters /\ Nothing \notin Nat
      /\ MaxQuarters \in Nat
    BY MeterTyped, InstantTyped, ConstantsTyped, GridStateAssumption
<1>2. /\ grid'.quarters = <<>> /\ grid'.quarter = now /\ grid'.quarterKwh = 0
      /\ grid'.hourKwh = Nothing /\ grid'.peaks = NoPeaks
      /\ rot'.quarter = Nothing /\ rot'.hour = Nothing
    BY DEF NewGrid, NoRotation
<1>3. Window(grid', Told')
    <2> DEFINE T == Told'
    <2>1. <<>> \in Seq(T) /\ Len(<<>>) = 0 /\ 1..0 - 1 = {}
        OBVIOUS
    <2> HIDE DEF T
    <2> QED BY <1>1, <1>2, <2>1 DEF Window, InOrder, T
<1>4. WindowInv'
    BY <1>1, <1>2, <1>3 DEF WindowInv
<1>5. Entry(now, 0) \in Spent'
    <2>1. 0 <= meter'.byQuarter[now]
        BY MeterTyped
    <2> QED BY <1>1, <2>1 DEF Spent, Entry, Entries
<1>6. AllIn(NoPeaks, Used')
    BY DEF AllIn, NoPeaks
<1>7. TruthInv'
    BY <1>2, <1>5, <1>6 DEF TruthInv
<1> QED BY <1>4, <1>7

-----------------------------------------------------------------------------
(* The steps keep the curve genuine. *)

LEMMA InitGenuine == Init => CurveInv
<1> SUFFICES ASSUME Init PROVE CurveInv
    OBVIOUS
<1>1. GInv /\ TypeOK
    BY InitGood DEF GInv
<1>2. now \in Nat /\ now \in Instants /\ now \in Quarters /\ Nothing \notin Nat
      /\ MaxQuarters \in Nat
    BY <1>1, MeterTyped, InstantTyped, ConstantsTyped, GridStateAssumption
<1>3. meter.today = 0 /\ \A q \in Instants : meter.byQuarter[q] = 0
    BY DEF Init
<1>4. MeterInv
    <2>1. 1..Len(wire) = {}
        BY DEF Init
    <2>2. Base = 0
        BY <1>2, <1>3 DEF Base
    <2> QED BY <1>3, <2>1, <2>2 DEF MeterInv
<1>5. /\ grid.quarters = <<>> /\ grid.quarter = now /\ grid.quarterKwh = 0
      /\ grid.hourKwh = Nothing /\ grid.peaks = NoPeaks
      /\ rot.quarter = Nothing /\ rot.hour = Nothing
    BY DEF Init, NewGrid, NoRotation
<1>6. Window(grid, Told)
    <2> DEFINE T == Told
    <2>1. <<>> \in Seq(T) /\ Len(<<>>) = 0 /\ 1..0 - 1 = {}
        OBVIOUS
    <2> HIDE DEF T
    <2> QED BY <1>2, <1>5, <2>1 DEF Window, InOrder, T
<1>7. WindowInv
    BY <1>2, <1>5, <1>6 DEF WindowInv
<1>8. TruthInv
    <2>1. Entry(now, 0) \in Spent
        BY <1>2, <1>3 DEF Spent, Entry, Entries
    <2>2. AllIn(NoPeaks, Used)
        BY DEF AllIn, NoPeaks
    <2> QED BY <1>5, <2>1, <2>2 DEF TruthInv
<1> QED BY <1>1, <1>4, <1>7, <1>8 DEF CurveInv

LEMMA WireTyped ==
    ASSUME TypeOK, NEW i \in 1..Len(wire)
    PROVE  /\ wire[i] \in Readings /\ wire[i].stamp \in Nat
           /\ wire[i].hour \in Nat \cup {Nothing} /\ wire[i].today \in Nat \cup {Nothing}
<1>1. wire[i] \in Readings
    <2>1. wire \in Seq(Readings)
        BY DEF TypeOK
    <2> QED BY <2>1
<1> QED BY <1>1, HourTyped DEF Readings

LEMMA ConsumeGenuine == ASSUME CurveInv, Consume PROVE CurveInv'
<1>1. GInv /\ TypeOK /\ MeterInv /\ WindowInv /\ TruthInv
    BY DEF CurveInv, GInv
<1>2. GInv' /\ TypeOK'
    BY <1>1, ConsumeGood DEF GInv
<1>3. /\ meter.today \in Nat /\ meter.byHour \in [VisitedHours -> Nat]
      /\ meter.byQuarter \in [Instants -> Nat] /\ now \in Instants /\ now \in Nat
      /\ HourOf(now) \in VisitedHours
    BY <1>1, MeterTyped
<1>4. /\ meter'.today = meter.today + 1
      /\ meter'.byHour = [meter.byHour EXCEPT ![HourOf(now)] = @ + 1]
      /\ meter'.byQuarter = [meter.byQuarter EXCEPT ![now] = @ + 1]
      /\ UNCHANGED <<now, wire, rot, grid, late, blank>>
    BY <1>1 DEF Consume, TypeOK
<1>5. /\ \A h \in VisitedHours : meter.byHour[h] <= meter'.byHour[h]
      /\ \A q \in Instants : meter.byQuarter[q] <= meter'.byQuarter[q]
      /\ \A q \in Instants : q # now => meter'.byQuarter[q] = meter.byQuarter[q]
      /\ meter'.byQuarter[now] = meter.byQuarter[now] + 1
      /\ meter'.byHour[HourOf(now)] = meter.byHour[HourOf(now)] + 1
      /\ meter.byQuarter[now] \in Nat /\ meter.byHour[HourOf(now)] \in Nat
    BY <1>3, <1>4
<1>6. Base' = Base /\ Base \in Int
    BY <1>3, <1>4, <1>5 DEF Base
<1>7. TruthInv' /\ Window(grid', Told')
    <2>1. Window(grid, Told)
        BY <1>1 DEF WindowInv
    <2> QED BY <1>1, <1>2, <1>4, <1>5, <2>1, TruthGrows
<1>8. WindowInv'
    BY <1>1, <1>4, <1>6, <1>7 DEF WindowInv
<1>9. ASSUME NEW i \in 1..Len(wire) PROVE OnTheWay(wire[i])'
    <2>1. /\ wire[i].hour \in Nat \cup {Nothing} /\ wire[i].today \in Nat \cup {Nothing}
          /\ wire[i].stamp \in Nat
        BY <1>1, <1>9, WireTyped
    <2>2. OnTheWay(wire[i])
        BY <1>1, <1>9 DEF MeterInv
    <2> QED BY <1>3, <1>4, <1>5, <1>6, <2>1, <2>2 DEF OnTheWay
<1>10. MeterInv'
    <2>1. ASSUME NEW q \in Instants, q > now PROVE meter'.byQuarter[q] = 0
        <3>1. meter.byQuarter[q] = 0
            BY <1>1, <2>1 DEF MeterInv
        <3>2. q # now
            <4>1. q \in Nat /\ now \in Nat
                BY <1>3, InstantTyped
            <4> QED BY <2>1, <4>1
        <3> QED BY <1>5, <3>1, <3>2
    <2> QED BY <1>1, <1>4, <1>6, <1>9, <2>1 DEF MeterInv
<1> QED BY <1>2, <1>7, <1>8, <1>10 DEF CurveInv

LEMMA TickGenuine == ASSUME CurveInv, Tick PROVE CurveInv'
<1>1. GInv /\ TypeOK /\ MeterInv /\ WindowInv /\ TruthInv
    BY DEF CurveInv, GInv
<1>2. GInv' /\ TypeOK'
    BY <1>1, TickGood DEF GInv
<1>3. /\ meter.today \in Nat /\ meter.byQuarter \in [Instants -> Nat]
      /\ meter.byHour \in [VisitedHours -> Nat] /\ now \in Instants /\ now \in Nat
    BY <1>1, MeterTyped
<1>4. now' \in Instants /\ now' \in Nat /\ now' > now
    <2> DEFINE S == {q \in Instants : q > now}
    <2>1. S \in SUBSET Nat /\ S # {} /\ now' = Earliest(S)
        BY InstantTyped DEF Tick
    <2> HIDE DEF S
    <2>2. now' \in S
        BY <2>1, EarliestTyped
    <2> QED BY <2>1, <2>2 DEF S
<1>5. /\ meter'.byQuarter = meter.byQuarter /\ meter'.byHour = meter.byHour
      /\ meter'.today \in Nat
      /\ UNCHANGED <<wire, rot, grid, late, blank>>
    <2>1. meter' = meter \/ meter' = [meter EXCEPT !.today = 0]
        BY DEF Tick
    <2> QED BY <1>1, <1>3, <2>1 DEF Tick, TypeOK
<1>6. meter'.byQuarter[now'] = 0 /\ Base' \in Nat
    BY <1>1, <1>4, <1>5 DEF MeterInv, Base
<1>7. TruthInv' /\ Window(grid', Told')
    <2>1. Window(grid, Told)
        BY <1>1 DEF WindowInv
    <2>2. /\ \A h \in VisitedHours : meter.byHour[h] <= meter'.byHour[h]
          /\ \A q \in Instants : meter.byQuarter[q] <= meter'.byQuarter[q]
        BY <1>3, <1>5
    <2> QED BY <1>1, <1>2, <1>5, <2>1, <2>2, TruthGrows
<1>8. WindowInv'
    <2>1. grid.quarter \in Nat
        BY <1>1, HourTyped, GridGood, GoodFields
    <2>2. rot.quarter # Nothing => rot.quarter \in Nat
        BY <1>1, HourTyped DEF TypeOK
    <2>3. Nothing \notin Nat
        BY ConstantsTyped
    <2>4. grid'.quarter <= now' /\ rot'.quarter # now'
        BY <1>1, <1>3, <1>4, <1>5, <2>1, <2>2, <2>3 DEF WindowInv
    <2> QED BY <1>1, <1>5, <1>7, <2>4 DEF WindowInv
<1>9. MeterInv'
    <2>1. \A q \in Instants : q > now' => meter'.byQuarter[q] = 0
        <3>1. \A q \in Instants : q \in Nat
            BY InstantTyped
        <3> QED BY <1>1, <1>3, <1>4, <1>5, <3>1 DEF MeterInv
    <2>2. ASSUME NEW i \in 1..Len(wire) PROVE OnTheWay(wire[i])'
        <3>1. wire[i].stamp \in Nat /\ wire[i].stamp <= now
            BY <1>1, <2>2, WireTyped DEF MeterInv, OnTheWay
        <3> QED BY <1>3, <1>4, <1>5, <3>1 DEF OnTheWay
    <2> QED BY <1>5, <1>6, <2>1, <2>2 DEF MeterInv
<1> QED BY <1>2, <1>7, <1>8, <1>9 DEF CurveInv

LEMMA MeterSendsGenuine == ASSUME CurveInv, MeterSends PROVE CurveInv'
<1>1. GInv /\ TypeOK /\ MeterInv /\ WindowInv /\ TruthInv
    BY DEF CurveInv, GInv
<1>2. GInv' /\ TypeOK'
    BY <1>1, MeterSendsGood DEF GInv
<1>3. PICK r \in ReadingsNow : wire' = Append(wire, r)
    BY DEF MeterSends
<1>4. UNCHANGED <<now, meter, rot, grid, late, blank>>
    BY DEF MeterSends
<1>5. WindowInv' /\ TruthInv'
    BY <1>1, <1>4 DEF WindowInv, TruthInv, Told, Spent, Used, Base
<1>6. OnTheWay(r)
    <2>1. /\ meter.today \in Nat /\ now \in Nat /\ meter.byQuarter[now] \in Nat
          /\ meter.byHour[HourOf(now)] \in Nat
        BY <1>1, MeterTyped
    <2> QED BY <2>1 DEF OnTheWay, ReadingsNow, Base
<1>7. ASSUME NEW i \in 1..Len(wire') PROVE OnTheWay(wire'[i])
    <2>1. \/ i \in 1..Len(wire) /\ wire'[i] = wire[i]
          \/ wire'[i] = r
        BY <1>1, <1>3, <1>7 DEF TypeOK
    <2> QED BY <1>1, <1>6, <2>1 DEF MeterInv
<1>8. MeterInv'
    BY <1>1, <1>4, <1>7 DEF MeterInv, OnTheWay, Base
<1> QED BY <1>2, <1>5, <1>8 DEF CurveInv

LEMMA SyncRecordsGenuine ==
    ASSUME CurveInv, NEW tie \in Days, SyncRecords(tie) PROVE CurveInv'
<1> DEFINE h == Earliest(nodes)
           k == meter.byHour[h]
           G == MaybeUpdatePeak(grid, h, k, tie)
           peak == [hour |-> h, kwh |-> k]
<1>1. GInv /\ TypeOK /\ MeterInv /\ WindowInv /\ TruthInv
    BY DEF CurveInv, GInv
<1>2. GInv'
    BY <1>1, SyncRecordsGood
<1>3. h \in VisitedHours /\ h \in Hours
    BY <1>1, InstantTyped, HoursAreNat, EarliestTyped DEF SyncRecords, TypeOK
<1>4. k \in Nat /\ meter.byHour \in [VisitedHours -> Nat]
    BY <1>1, <1>3, MeterTyped
<1>5. grid' = G /\ UNCHANGED <<now, meter, wire, rot, late, blank>>
    BY DEF SyncRecords
<1>6. peak \in Used
    BY <1>3, <1>4 DEF Used
<1> HIDE DEF h, k
<1>7. /\ SameWindow(G, grid) /\ G.hour = grid.hour /\ G.hourKwh = grid.hourKwh
      /\ \A S : AllIn(grid.peaks, S) /\ peak \in S => AllIn(G.peaks, S)
    BY <1>1, <1>3, <1>4, GridGood, MaybeUpdatePeakKeeps
<1> HIDE DEF G, peak
<1>8. MeterInv'
    BY <1>1, <1>5 DEF MeterInv, OnTheWay, Base
<1>9. WindowInv'
    BY <1>1, <1>5, <1>7 DEF WindowInv, Window, SameWindow, Told, Spent, Base
<1>10. TruthInv'
    <2> SUFFICES ASSUME ~late' PROVE TruthInv'
        BY DEF TruthInv
    <2>1. AllIn(G.peaks, Used)
        BY <1>1, <1>5, <1>6, <1>7 DEF TruthInv
    <2>2. Used' = Used /\ Spent' = Spent
        BY <1>5 DEF Used, Spent
    <2> QED BY <1>1, <1>5, <1>7, <2>1, <2>2 DEF TruthInv, SameWindow
<1> QED BY <1>2, <1>8, <1>9, <1>10 DEF CurveInv

LEMMA RestartGenuine == ASSUME CurveInv, Restart PROVE CurveInv'
<1>1. GInv /\ TypeOK /\ MeterInv
    BY DEF CurveInv, GInv
<1>2. GInv' /\ TypeOK'
    BY <1>1, RestartGood DEF GInv
<1>3. /\ late' = FALSE /\ grid' = NewGrid(now) /\ rot' = NoRotation /\ wire' = <<>>
      /\ UNCHANGED <<now, meter>>
    BY DEF Restart
<1>4. WindowInv' /\ TruthInv'
    BY <1>1, <1>3, NewGridTrue
<1>5. MeterInv'
    <2>1. 1..Len(wire') = {}
        BY <1>3
    <2> QED BY <1>1, <1>3, <2>1 DEF MeterInv, Base
<1> QED BY <1>2, <1>4, <1>5 DEF CurveInv

LEMMA HandleReadingGenuine ==
    ASSUME CurveInv, NEW tie \in Days, HandleReading(tie) PROVE CurveInv'
<1> DEFINE x == Head(wire)
           r == Filled(x)
           E == Told'
           H == HourPath(r, tie)
           G == QuarterPath(H, r)
           same == rot.quarter # Nothing /\ SameQuarter(r)
<1>1. GInv /\ TypeOK /\ MeterInv /\ WindowInv /\ TruthInv
    BY DEF CurveInv, GInv
<1>2. GInv' /\ TypeOK'
    BY <1>1, HandleReadingGood DEF GInv
<1>3. /\ meter.today \in Nat /\ meter.byHour \in [VisitedHours -> Nat]
      /\ meter.byQuarter \in [Instants -> Nat] /\ now \in Instants /\ now \in Nat
      /\ HourOf(now) \in VisitedHours /\ meter.byQuarter[now] \in Nat
      /\ meter.byHour[HourOf(now)] \in Nat /\ Base \in Int
    BY <1>1, MeterTyped
<1>4. /\ wire \in Seq(Readings) /\ wire # <<>> /\ wire' = Tail(wire)
      /\ grid' = G /\ late' = (late \/ r.stamp # now)
      /\ rot' = IF same THEN [rot EXCEPT !.hour = HourOf(r.stamp)]
                ELSE [hour |-> HourOf(r.stamp), quarter |-> r.stamp, snapshot |-> r.today]
      /\ blank' = IF x.today = Nothing THEN blank \cup {r.stamp} ELSE blank
      /\ UNCHANGED <<now, meter>>
    BY <1>1 DEF HandleReading, TypeOK, Filled
<1>5. x \in Readings /\ x.stamp \in Nat /\ OnTheWay(x)
    <2>1. 1 \in 1..Len(wire) /\ x = wire[1]
        BY <1>4
    <2> HIDE DEF x
    <2>2. wire[1] \in Readings /\ wire[1].stamp \in Nat
        BY <1>1, <2>1, WireTyped
    <2> QED BY <1>1, <2>1, <2>2 DEF MeterInv
<1> HIDE DEF x
<1>6. /\ r \in Counted /\ r.stamp = x.stamp
       /\ r.today = OrZero(x.today) /\ r.hour = OrZero(x.hour)
    BY <1>5, FilledTyped
<1> HIDE DEF r
<1>7. /\ r.stamp \in Nat /\ r.stamp <= now /\ r.today \in Nat /\ r.hour \in Nat
      /\ r.stamp = now /\ now \notin blank' => Base <= r.today /\ r.today <= meter.today
      /\ r.stamp = now => r.hour <= meter.byHour[HourOf(now)]
    <2>1. r.stamp \in Nat /\ r.stamp <= now /\ r.today \in Nat /\ r.hour \in Nat
        BY <1>5, <1>6 DEF OnTheWay, Counted
    <2>2. r.stamp = now /\ now \notin blank' => x.today # Nothing
        BY <1>4
    <2> QED BY <1>3, <1>5, <1>6, <2>1, <2>2 DEF OnTheWay, OrZero
<1>8. MeterInv'
    <2>1. \A i \in 1..Len(wire') : \E j \in 1..Len(wire) : wire'[i] = wire[j]
        BY <1>4
    <2>2. \A i \in 1..Len(wire') : OnTheWay(wire'[i])
        BY <1>1, <2>1 DEF MeterInv
    <2> QED BY <1>1, <1>4, <2>2 DEF MeterInv, OnTheWay, Base
<1>9. /\ Used' = Used /\ Spent \subseteq Spent' /\ Base' = Base /\ blank \subseteq blank'
      /\ ~late' => (~late /\ r.stamp = now)
    BY <1>4 DEF Used, Spent, Base
<1>10. Good(grid) /\ grid.quarter \in Nat /\ grid.quarter \in Quarters
      /\ grid.quarterKwh \in Nat /\ now \in Quarters
    BY <1>1, <1>3, GridGood, GoodFields, HourTyped, InstantTyped
<1>11. E \in SUBSET Entries /\ Window(grid, E)
      /\ Entry(grid.quarter, grid.quarterKwh) \in E
    <2>1. Entry(grid.quarter, grid.quarterKwh) \in Entries
        BY <1>10 DEF Entry, Entries
    <2>2. Told \subseteq E /\ E \subseteq Entries
        BY <1>4, <1>9 DEF Told, Spent
    <2>3. Entry(grid.quarter, grid.quarterKwh) \in E
        <3>1. CASE late'
            BY <2>1, <3>1 DEF Told
        <3>2. CASE ~late'
            <4>1. E = Spent' /\ ~late
                BY <1>4, <1>9, <3>2 DEF Told
            <4> QED BY <1>1, <1>9, <4>1 DEF TruthInv
        <3> QED BY <3>1, <3>2
    <2> HIDE DEF E
    <2> QED BY <1>1, <2>2, <2>3 DEF WindowInv, Window
<1>12. /\ SameWindow(H, grid) /\ H.hour = HourOf(now) /\ H.hourKwh = r.hour
       /\ \A S : /\ AllIn(grid.peaks, S)
                 /\ grid.hourKwh # Nothing =>
                      /\ [hour |-> grid.hour, kwh |-> grid.hourKwh] \in S
                      /\ rot.hour # Nothing =>
                            [hour |-> rot.hour, kwh |-> grid.hourKwh] \in S
                 => AllIn(H.peaks, S)
    BY <1>1, <1>6, HourPathKeeps
<1>13. Good(H)
    BY <1>1, <1>6, HourPathGood
<1> HIDE DEF H
<1>14. Window(H, E) /\ Entry(H.quarter, H.quarterKwh) \in E /\ H.quarter <= now
       /\ (rot.quarter # Nothing => rot.quarter <= H.quarter)
    BY <1>1, <1>11, <1>12 DEF SameWindow, Window, WindowInv
<1>15. rot.quarter # Nothing => rot.quarter = H.quarter \/ E = Entries
    BY <1>1, <1>4, <1>9, <1>12 DEF TruthInv, SameWindow, Told
<1>16. /\ Window(G, E) /\ SameHour(G, H) /\ G.quarter = now
       /\ G.quarterKwh = IF same THEN r.today - rot.snapshot ELSE 0
    <2> HIDE DEF E
    <2> QED BY <1>1, <1>6, <1>11, <1>13, <1>14, <1>15, QuarterPathKeeps
<1> HIDE DEF G
<1>17. rot \in [hour : Hours \cup {Nothing}, quarter : Quarters \cup {Nothing},
                snapshot : Nat \cup {Nothing}]
    BY <1>1 DEF TypeOK
<1>18. same => /\ rot.quarter = r.stamp /\ rot.snapshot \in Nat
               /\ r.today >= rot.snapshot
    BY <1>1, <1>17 DEF SameQuarter, GInv, RotationPaired
<1> HIDE DEF same
<1>19. rot'.hour = HourOf(r.stamp) /\ rot'.quarter = r.stamp
    BY <1>4, <1>17, <1>18
<1>20. r.stamp = now /\ now \notin blank' => Base <= rot'.snapshot
    <2>1. CASE same
        BY <1>1, <1>4, <1>9, <1>17, <1>18, <2>1 DEF WindowInv
    <2>2. CASE ~same
        BY <1>4, <1>7, <2>2
    <2> QED BY <2>1, <2>2
<1>21. WindowInv'
    <2> HIDE DEF E
    <2>1. Window(grid', E) /\ grid'.quarter = now /\ now' = now /\ r.stamp <= now
        BY <1>4, <1>7, <1>16
    <2>2. rot'.quarter <= grid'.quarter /\ grid'.quarter <= now'
        BY <1>3, <1>19, <2>1
    <2>3. rot'.quarter = now' /\ now' \notin blank' => Base' <= rot'.snapshot
        BY <1>9, <1>19, <1>20, <2>1
    <2> QED BY <2>1, <2>2, <2>3 DEF WindowInv, E
<1>22. TruthInv'
    <2> SUFFICES ASSUME ~late' PROVE TruthInv'
        BY DEF TruthInv
    <2>1. ~late /\ r.stamp = now
        BY <1>4
    <2>2. AllIn(H.peaks, Used)
        BY <1>1, <1>12, <2>1 DEF TruthInv
    <2>3. AllIn(G.peaks, Used) /\ G.hour = HourOf(now) /\ G.hourKwh = r.hour
        BY <1>12, <1>16, <2>2 DEF SameHour
    <2>4. [hour |-> HourOf(now), kwh |-> r.hour] \in Used
        BY <1>3, <1>7, <2>1 DEF Used
    <2>5. /\ G.quarterKwh \in Nat
          /\ now \in blank' \/ G.quarterKwh <= meter.byQuarter[now]
        <3>1. CASE same
            <4>1. now \notin blank' => Base <= rot.snapshot
                BY <1>1, <1>9, <1>18, <2>1, <3>1 DEF WindowInv
            <4>2. now \notin blank' => r.today <= meter.today
                BY <1>7, <2>1
            <4> QED BY <1>3, <1>7, <1>16, <1>18, <3>1, <4>1, <4>2 DEF Base
        <3>2. CASE ~same
            BY <1>3, <1>16, <3>2
        <3> QED BY <3>1, <3>2
    <2>6. Entry(G.quarter, G.quarterKwh) \in Spent'
        BY <1>3, <1>4, <1>10, <1>16, <2>5 DEF Spent, Entry, Entries
    <2>7. AllIn(grid'.peaks, Used')
          /\ [hour |-> grid'.hour, kwh |-> grid'.hourKwh] \in Used'
        BY <1>4, <1>9, <2>3, <2>4
    <2>8. Entry(grid'.quarter, grid'.quarterKwh) \in Spent'
        BY <1>4, <1>9, <2>6
    <2>9. rot'.hour = grid'.hour /\ rot'.quarter = grid'.quarter
        BY <1>4, <1>16, <1>19, <2>1, <2>3
    <2> QED BY <2>7, <2>8, <2>9 DEF TruthInv
<1> QED BY <1>2, <1>8, <1>21, <1>22 DEF CurveInv

LEMMA CurveInductive == CurveInv /\ [Next]_vars => CurveInv'
<1> SUFFICES ASSUME CurveInv, [Next]_vars PROVE CurveInv'
    OBVIOUS
<1>1. GInv'
    BY GInvInductive DEF CurveInv
<1>2. ASSUME Connect \/ Break \/ Stop PROVE CurveInv'
    BY <1>1, <1>2, CurveKept DEF Connect, Break, Stop
<1>3. ASSUME SyncAnswers \/ SyncFails \/ UNCHANGED vars PROVE CurveInv'
    BY <1>1, <1>3, CurveKept DEF SyncAnswers, SyncFails, vars
<1> QED BY <1>2, <1>3, ConsumeGenuine, TickGenuine, MeterSendsGenuine,
           SyncRecordsGenuine, RestartGenuine, HandleReadingGenuine DEF Next

\* The curve is genuine for every calendar, number of days, length of the
\* window and order of readings: the window is in order, without a double and
\* before the running quarter, and while every reading came in its quarter,
\* no peak and no quarter tells of what was not used, but for a quarter with a
\* reading that lacked the day's counter (process_message, record_quarter,
\* update_current_quarter, update_current_hour).
THEOREM CurveCorrect == Spec => []CurveIsGenuine
<1>1. CurveInv => CurveIsGenuine
    <2> SUFFICES ASSUME CurveInv PROVE CurveIsGenuine
        OBVIOUS
    <2>1. Window(grid, Told) /\ TruthInv
        BY DEF CurveInv, WindowInv
    <2>2. QuartersInOrder
        BY <2>1 DEF Window, InOrder, QuartersInOrder
    <2>3. ASSUME ~late
          PROVE  /\ \A d \in DOMAIN grid.peaks :
                       grid.peaks[d].kwh <= meter.byHour[grid.peaks[d].hour]
                 /\ \A i \in DOMAIN grid.quarters :
                       grid.quarters[i].at \notin blank => IsTrue(grid.quarters[i])
        <3>1. AllIn(grid.peaks, Used) /\ grid.quarters \in Seq(Spent)
            BY <2>1, <2>3 DEF TruthInv, Window, Told
        <3>2. \A i \in DOMAIN grid.quarters : grid.quarters[i] \in Spent
            BY <3>1
        <3> QED BY <3>1, <3>2 DEF AllIn, Used, Spent, IsTrue
    <2> QED BY <2>2, <2>3 DEF CurveIsGenuine, NothingInvented
<1> QED BY <1>1, InitGenuine, CurveInductive, PTL DEF Spec
=============================================================================
