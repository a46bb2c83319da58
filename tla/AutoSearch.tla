---------------------------- MODULE AutoSearch ----------------------------
(***************************************************************************)
(* schedule(auto): how the next technique of a loop is searched for.  The  *)
(* runtime keeps one record per place in the program (LoopData); a search  *)
(* reads what the last execution of the loop measured and selects an index *)
(* of the portfolio.  A search that draws a number, or calls undefined     *)
(* behaviour, yields a set of records.  Times are whole milliseconds, load *)
(* imbalances whole percents, memberships of fuzzy sets thousandths.       *)
(***************************************************************************)
EXTENDS Integers

CONSTANT Size           \* techniques in the portfolio, autoDLSPortfolio.size()

ASSUME SizeAssumption == Size \in Nat \ {0}

SS == 1                 \* dynamic; 0 is static
Dls == 0 .. Size - 1

NewRecord ==
    [autoSearch |-> 1, cDLS |-> -1, bestDLS |-> -1, searchTrials |-> 0,
     cChunk |-> 0, bestChunk |-> 0, cTime |-> -1, bestTime |-> -1,
     cLB |-> -1, bestLB |-> -1]

\* n iterations for p threads: static gets one chunk per thread.
WithChunk(r, n, p) == [r EXCEPT !.cChunk = IF r.cDLS = 0 THEN n \div p ELSE 1]
---------------------------------------------------------------------------
(* Option 3: every technique once, then the fastest.                       *)
Faster(r) == r.cTime < r.bestTime \/ r.bestTime = -1

Noted(r) == IF Faster(r)
            THEN [r EXCEPT !.bestDLS = r.cDLS, !.bestTime = r.cTime,
                           !.bestLB = r.cLB, !.bestChunk = r.cChunk]
            ELSE r

\* Mutant: the next technique follows the best one, not the last one.
ExhaustiveFromBest(r) ==
    IF r.searchTrials < Size
    THEN [Noted(r) EXCEPT !.cDLS = (Noted(r).bestDLS + 1) % Size, !.searchTrials = @ + 1]
    ELSE [Noted(r) EXCEPT !.cDLS = Noted(r).bestDLS, !.cChunk = Noted(r).bestChunk,
                          !.searchTrials = 0, !.autoSearch = 0]
Exhaustive(r) ==
    IF r.searchTrials < Size
    THEN [Noted(r) EXCEPT !.cDLS = (@ + 1) % Size, !.searchTrials = @ + 1]
    ELSE [Noted(r) EXCEPT !.cDLS = Noted(r).bestDLS, !.cChunk = Noted(r).bestChunk,
                          !.searchTrials = 0, !.autoSearch = 0]
---------------------------------------------------------------------------
(* Option 4: jumps of half the length, right when the imbalance grew.      *)
\* Mutant: the last steps are rounded up.
StepRoundedUp(r) == (2 * Size + 2 ^ r.searchTrials - 1) \div 2 ^ r.searchTrials
Step(r) == (2 * Size) \div 2 ^ r.searchTrials

\* Mutant: the lower end is not cut.
WithinAbove(d) == IF d > Size - 1 THEN Size - 1 ELSE d
Within(d) == IF d > Size - 1 THEN Size - 1 ELSE IF d < 0 THEN 0 ELSE d

BaseLB(r) == IF r.bestLB = -1 THEN r.cLB ELSE r.bestLB

Moved(r) == IF Step(r) = 0 THEN r.cDLS
            ELSE IF r.cLB > BaseLB(r) \/ r.searchTrials = 0 THEN r.cDLS + Step(r)
            ELSE r.cDLS - Step(r)

Binary(r) ==
    [r EXCEPT !.cDLS = Within(Moved(r)), !.bestLB = r.cLB, !.bestDLS = r.cDLS,
              !.bestChunk = r.cChunk,
              !.searchTrials = (IF Step(r) = 0 THEN 0 ELSE @) + 1,
              !.autoSearch = IF Step(r) = 0 THEN 0 ELSE @]
---------------------------------------------------------------------------
(* Option 2: jumps anywhere with ten times the imbalance as probability.   *)
MayJump(r) == r.searchTrials = 0 \/ r.cLB > 0
MayStay(r) == r.searchTrials # 0 /\ r.cLB <= 10

Jumps(r) == {[r EXCEPT !.cDLS = d, !.bestDLS = r.cDLS, !.bestLB = r.cLB,
                       !.bestChunk = r.cChunk, !.searchTrials = @ + 1] : d \in Dls}

RandomSearch(r) ==
    (IF MayJump(r) THEN Jumps(r) ELSE {})
        \cup (IF MayStay(r) THEN {[r EXCEPT !.searchTrials = @ + 1]} ELSE {})
---------------------------------------------------------------------------
(* Option 5: fuzzy rules.  lb and dlb are the imbalance and its change, ms *)
(* the loop time, dt the change of the time in tenths of a percent.  The   *)
(* code has no return for dt = 10, ms = 10000 and lb = 5: hole is what the *)
(* caller gets.                                                            *)
Least(a, b) == IF a < b THEN a ELSE b
Most(a, b) == IF a > b THEN a ELSE b

DlbISDegraded(dlb) == IF dlb >= 3 THEN 1000 ELSE IF dlb >= 0 THEN 330 * dlb ELSE 0
DlbISImproved(dlb) == IF dlb < -3 THEN 1000 ELSE IF dlb <= 0 THEN -330 * dlb ELSE 0
DlbISNoChange(dlb) ==
    IF dlb < -3 \/ dlb > 3 THEN 0
    ELSE IF dlb < -1 THEN 660 * dlb + 2000
    ELSE IF dlb <= 1 THEN 1000 ELSE 2000 - 660 * dlb

DTparISNoChange(dt, hole) ==
    IF dt < -10 \/ dt > 10 THEN 0
    ELSE IF dt < -5 THEN 200 * dt + 2000
    ELSE IF dt <= 5 THEN 1000
    ELSE IF dt < 10 THEN 2000 - 200 * dt ELSE hole
DTparISDegraded(dt) ==
    IF dt < 5 THEN 0 ELSE IF dt <= 30 THEN 40 * dt - 200 ELSE 1000
DTparISImproved(dt) ==
    IF dt > -5 THEN 0 ELSE IF dt >= -30 THEN -40 * dt - 200 ELSE 1000

TparISLong(ms) == IF ms <= 1000 THEN 0 ELSE IF ms >= 10000 THEN 1000
                  ELSE (11 * ms - 11000) \div 100
TparISMedium(ms, hole) ==
    IF ms < 0 \/ ms > 10000 THEN 0
    ELSE IF ms < 100 THEN 10 * ms
    ELSE IF ms <= 1000 THEN 1000
    ELSE IF ms < 10000 THEN (111000 - 11 * ms) \div 100 ELSE hole
TparISShort(ms) == IF ms <= 10 THEN 1000 ELSE IF ms >= 30 THEN 0 ELSE 1500 - 50 * ms

LBISHigh(lb) == IF lb <= 4 THEN 0 ELSE IF lb >= 10 THEN 1000 ELSE 166 * lb - 640
\* Whole percents meet nothing between 4 and the hole at 5.
LBISModerate(lb, hole) == IF lb < 1 \/ lb > 5 THEN 0
                          ELSE IF lb < 2 THEN 1000 * lb - 1000
                          ELSE IF lb <= 4 THEN 1000 ELSE hole
LBISLow(lb) == IF lb <= 1 THEN 1000 ELSE IF lb >= 2 THEN 0 ELSE 2000 - 1000 * lb

\* The rules while nothing has been measured before.
FirstRules(ms, lb, hole) ==
    [simple |-> Most(TparISShort(ms), LBISLow(lb)),
     moderate |-> Most(Most(Least(TparISMedium(ms, hole), LBISHigh(lb)),
                            Least(TparISMedium(ms, hole), LBISModerate(lb, hole))),
                       Least(TparISLong(ms), LBISModerate(lb, hole))),
     aggressive |-> Least(LBISHigh(lb), TparISLong(ms))]

\* The rules that change the technique in use.
DeltaRules(ms, lb, dt, dlb, hole) ==
    [same |-> Most(Most(Least(DTparISNoChange(dt, hole), DlbISNoChange(dlb)), LBISLow(lb)),
                   DTparISImproved(dt)),
     more |-> Most(Most(Least(LBISHigh(lb), TparISLong(ms)),
                        Least(DTparISDegraded(dt), DlbISDegraded(dlb))),
                   Least(DTparISNoChange(dt, hole), DlbISDegraded(dlb))),
     less |-> Most(Most(Most(Least(DTparISDegraded(dt), DlbISImproved(dlb)),
                             Least(DTparISDegraded(dt), DlbISNoChange(dlb))),
                        Most(Least(DTparISNoChange(dt, hole), DlbISImproved(dlb)),
                             TparISShort(ms))),
                   Least(DTparISDegraded(dt), LBISLow(lb)))]

\* Areas of the output sets, in quarters; 17/2 is an integer division.
FirstAreas(w) == [aggressive |-> 32 * w.aggressive, moderate |-> 15 * w.moderate,
                  simple |-> 3 * w.simple]
FirstTotal(a) == a.aggressive + a.moderate + a.simple
FirstSelected(a) ==
    (14 * a.aggressive + 3 * a.moderate + FirstTotal(a) - a.simple) \div FirstTotal(a)

DeltaAreas(w) == [less |-> 11 * w.less, same |-> 6 * w.same, more |-> 11 * w.more]
DeltaTotal(a) == a.less + a.same + a.more

\* d + 4 (more - less) / total, rounded; what is below zero is cut anyway.
DeltaSelected(d, a) ==
    (2 * d * DeltaTotal(a) + 8 * (a.more - a.less) + DeltaTotal(a))
        \div (2 * DeltaTotal(a))

FirstTime(r) == r.bestLB = -1 /\ r.bestTime = -1

TimeChange(r) == ((r.cTime - r.bestTime) * 1000) \div r.cTime

\* No area at all makes the result not a number: any technique may come out.
Selected(r, hole) ==
    LET f == FirstAreas(FirstRules(r.cTime, r.cLB, hole))
        d == DeltaAreas(DeltaRules(r.cTime, r.cLB, TimeChange(r), r.cLB - r.bestLB, hole))
    IN  IF FirstTime(r)
        THEN IF FirstTotal(f) = 0 THEN Dls ELSE {Within(FirstSelected(f))}
        ELSE IF DeltaTotal(d) = 0 THEN Dls ELSE {Within(DeltaSelected(r.cDLS, d))}

Fuzzy(r) ==
    {[r EXCEPT !.searchTrials = @ + 1, !.bestLB = r.cLB, !.bestDLS = r.cDLS,
               !.bestChunk = r.cChunk, !.bestTime = r.cTime, !.cDLS = d] :
        d \in Selected(r, 0) \cup Selected(r, 1000)}
---------------------------------------------------------------------------
(* auto_DLS_Search for the options that need no learning agent.            *)
Searched(option, r, n, p) ==
    {WithChunk(s, n, p) : s \in CASE option = 2 -> RandomSearch(r)
                                  [] option = 3 -> {Exhaustive(r)}
                                  [] option = 4 -> {Binary(r)}
                                  [] option = 5 -> Fuzzy(r)}

\* The end of a loop: time and imbalance are stored; a growth by more than ten
\* percent starts a new search.
Measured(r, time, lb) ==
    [r EXCEPT !.cTime = time, !.cLB = lb,
              !.autoSearch = IF lb > r.cLB + 10 THEN 1 ELSE @]
=============================================================================
