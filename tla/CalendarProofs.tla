--------------------------- MODULE CalendarProofs ---------------------------
(***************************************************************************)
(* Proofs about the days of a habit and the Calendar tab, for any number   *)
(* of days and any length of the months: no index of Detail traps, past    *)
(* days are kept, Calendar lists what was done on the day it names, and    *)
(* the loops of Detail end with what its words mean, by induction on the   *)
(* days they have gone along.                                              *)
(***************************************************************************)
EXTENDS CalendarScreen, Counting

Past == Established .. today

\* The list heard of is the document's, unless there is more to hear of; the
\* tab is changed to Calendar only then, and nothing is checked there.
DaysInv ==
  /\ today \in Day
  /\ checked \subseteq Past
  /\ habit \in [checkedDays : SUBSET Past, todayStatus : BOOLEAN]
  /\ news \in BOOLEAN
  /\ ~news => habit.checkedDays = checked

\* One date at most is selected; the header is never in the future, so the
\* cell of the header's day acts whenever it is drawn in its own month.
ScreenInv ==
  /\ tab \in {"Home", "Calendar"}
  /\ redraw \in BOOLEAN
  /\ tab = "Calendar" => ~news
  /\ redraw => tab = "Calendar"
  /\ header \in Past
  /\ selected \subseteq Day
  /\ \A d, e \in selected : d = e

CalendarInv == DaysInv /\ ScreenInv /\ ListIsOfHeader

-----------------------------------------------------------------------------

LEMMA InitHolds == CalendarInit => CalendarInv
<1> SUFFICES ASSUME CalendarInit PROVE CalendarInv
  OBVIOUS
<1>0. /\ today = Established /\ checked = {}
      /\ habit = [checkedDays |-> checked, todayStatus |-> today \in checked]
      /\ news = FALSE /\ redraw = FALSE
      /\ tab = "Home" /\ selected = {} /\ header = today
  BY DEF CalendarInit, Init, Heard
<1>1. DaysInv
  <2>1. habit \in [checkedDays : SUBSET Past, todayStatus : BOOLEAN]
    BY <1>0
  <2>2. today \in Day
    BY <1>0, DaysAssumption DEF Day
  <2> QED  BY <1>0, <2>1, <2>2 DEF DaysInv
<1>2. ScreenInv /\ ListIsOfHeader
  <2>1. header \in Past
    BY <1>0, DaysAssumption DEF Past
  <2> QED  BY <1>0, <2>1 DEF ScreenInv, ListIsOfHeader, AtRest
<1> QED  BY <1>1, <1>2 DEF CalendarInv

\* The days: whatever happens on the screen, and whatever the hour.
LEMMA DoneKeepsDays == ASSUME DaysInv, Done PROVE DaysInv'
  BY DaysAssumption DEF DaysInv, Done, Past, Day

LEMMA UndoKeepsDays == ASSUME DaysInv, Undo PROVE DaysInv'
<1>1. /\ UNCHANGED <<today, habit>> /\ checked' \subseteq checked
      /\ news' = (news \/ checked' # checked)
  BY DEF Undo
<1>2. ~news' => checked' = checked /\ ~news
  BY <1>1
<1>3. news' \in BOOLEAN
  BY <1>1
<1> QED  BY <1>1, <1>2, <1>3 DEF DaysInv, Past

LEMMA HearKeepsDays ==
  ASSUME DaysInv, HearOfHabits \/ HearAgain PROVE DaysInv'
<1>1. /\ UNCHANGED <<today, checked>> /\ news' = FALSE
      /\ habit' = [checkedDays |-> checked, todayStatus |-> today \in checked]
  BY DEF HearOfHabits, HearAgain, Heard
<1>2. (today \in checked) \in BOOLEAN
  OBVIOUS
<1>3. habit' \in [checkedDays : SUBSET Past, todayStatus : BOOLEAN]
  BY <1>1, <1>2 DEF DaysInv
<1> QED  BY <1>1, <1>3 DEF DaysInv, Past

LEMMA MidnightKeepsDays == ASSUME DaysInv, Midnight PROVE DaysInv'
<1>1. /\ today' = today + 1 /\ today < MaxDay
      /\ UNCHANGED <<checked, habit, news>>
  BY DEF Midnight
<1>2. today' \in Day /\ Past \subseteq Past'
  BY <1>1, DaysAssumption DEF DaysInv, Past, Day
<1> QED  BY <1>1, <1>2 DEF DaysInv

LEMMA StutterKeepsDays == ASSUME DaysInv, UNCHANGED vars PROVE DaysInv'
  BY DEF DaysInv, vars, Past, Day

LEMMA NextKeepsDays ==
  ASSUME DaysInv, [CalendarNext]_<<vars, calendarVars>> PROVE DaysInv'
<1>1. CASE OnHome  BY <1>1, DoneKeepsDays, UndoKeepsDays DEF OnHome
<1>2. CASE Elsewhere  BY <1>2, HearKeepsDays, MidnightKeepsDays DEF Elsewhere
<1>3. CASE UNCHANGED vars  BY <1>3, StutterKeepsDays
<1>4. CASE \/ ShowCalendar \/ ShowHome \/ CellsDrawn
           \/ \E d \in Day : SelectDate(d)
           \/ \E m \in Month(Established) .. Month(MaxDay) : Scroll(m)
  <2>1. UNCHANGED vars
    BY <1>4 DEF ShowCalendar, ShowHome, CellsDrawn, SelectDate, Scroll, vars
  <2> QED  BY <2>1, StutterKeepsDays
<1> QED  BY <1>1, <1>2, <1>3, <1>4 DEF CalendarNext, vars

\* The clock may go on and the list be heard of again: what is checked stays,
\* and so does the screen.
LEMMA ElsewhereKeepsScreen ==
  ASSUME DaysInv, ScreenInv, ListIsOfHeader, Elsewhere
  PROVE ScreenInv' /\ ListIsOfHeader'
<1>1. UNCHANGED <<checked, calendarVars>>
  BY DEF Elsewhere, HearOfHabits, HearAgain, Midnight
<1>2. (news' => news) /\ Past \subseteq Past'
  BY DaysAssumption DEF Elsewhere, HearOfHabits, HearAgain, Midnight, DaysInv, Past, Day
<1> QED
  BY <1>1, <1>2 DEF ScreenInv, ListIsOfHeader, AtRest, calendarVars, Month

LEMMA OnHomeKeepsScreen ==
  ASSUME DaysInv, ScreenInv, OnHome PROVE ScreenInv' /\ ListIsOfHeader'
<1>1. tab' = "Home" /\ ~redraw' /\ UNCHANGED <<today, calendarVars>>
  BY DEF OnHome, Done, Undo, calendarVars, ScreenInv
<1> QED  BY <1>1 DEF ScreenInv, ListIsOfHeader, AtRest, calendarVars, Past

\* Drawing the selected cell sets the header and the list together; where it
\* does nothing, the header's own cell is not among those drawn.
LEMMA DrawingIsOfHeader ==
  ASSUME DaysInv, ScreenInv, tab = "Calendar", UNCHANGED vars,
         NEW dates \in SUBSET Day, \A d, e \in dates : d = e, NEW m,
         DrawCells(dates, m)
  PROVE  /\ header' \in Past
         /\ dates = {header'} /\ Month(header') = m => displayed' = checked \cap {header'}
<1> DEFINE acting == {d \in dates : ActsWhenDrawn(d, m)}
<1>1. habit.checkedDays = checked
  BY DEF DaysInv, ScreenInv
<1>2. CASE acting = {}
  <2>1. UNCHANGED <<header, displayed>>
    BY <1>2 DEF DrawCells
  <2>2. header \notin dates \/ Month(header) # m
    BY <1>2, DaysAssumption DEF ActsWhenDrawn, ScreenInv, Past, DaysInv, Day
  <2> QED  BY <2>1, <2>2 DEF ScreenInv
<1>3. CASE acting # {}
  <2>1. PICK d \in acting : header' = d /\ displayed' = DisplayedHabits(d)
    BY <1>3 DEF DrawCells
  <2>2. d \in Past
    BY <2>1, DaysAssumption DEF ActsWhenDrawn, Past, DaysInv, Day
  <2> QED  BY <1>1, <2>1, <2>2 DEF DisplayedHabits
<1> QED  BY <1>2, <1>3

LEMMA ShowCalendarKeepsScreen ==
  ASSUME CalendarInv, ShowCalendar PROVE ScreenInv' /\ ListIsOfHeader'
<1>1. /\ tab' = "Calendar" /\ redraw' = TRUE /\ ~news
      /\ UNCHANGED <<vars, header>>
      /\ selected' = {today} \/ selected' = selected
  BY DEF ShowCalendar, Appear
<1> QED
  BY <1>1
  DEF CalendarInv, DaysInv, ScreenInv, ListIsOfHeader, AtRest, vars, Past

LEMMA CellsDrawnKeepsScreen ==
  ASSUME CalendarInv, CellsDrawn PROVE ScreenInv' /\ ListIsOfHeader'
<1>1. /\ tab = "Calendar" /\ DrawCells(selected, month)
      /\ redraw' = FALSE /\ UNCHANGED <<vars, tab, selected, month>>
  BY DEF CellsDrawn, CalendarInv, ScreenInv
<1>2. /\ header' \in Past
      /\ selected = {header'} /\ Month(header') = month
           => displayed' = checked \cap {header'}
  BY <1>1, DrawingIsOfHeader DEF CalendarInv, ScreenInv
<1> QED
  BY <1>1, <1>2 DEF CalendarInv, ScreenInv, ListIsOfHeader, vars, Past, Month

LEMMA SelectDateKeepsScreen ==
  ASSUME CalendarInv, NEW d \in Day, SelectDate(d)
  PROVE  ScreenInv' /\ ListIsOfHeader'
<1>1. /\ tab = "Calendar" /\ DrawCells({d}, month) /\ selected' = {d}
      /\ UNCHANGED <<vars, tab, month, redraw>>
  BY DEF SelectDate, AtRest
<1>2. /\ header' \in Past
      /\ {d} = {header'} /\ Month(header') = month
           => displayed' = checked \cap {header'}
  BY <1>1, DrawingIsOfHeader DEF CalendarInv
<1> QED
  BY <1>1, <1>2 DEF CalendarInv, ScreenInv, ListIsOfHeader, vars, Past, Month

LEMMA ScrollKeepsScreen ==
  ASSUME CalendarInv, NEW m, Scroll(m) PROVE ScreenInv' /\ ListIsOfHeader'
<1>1. /\ tab = "Calendar" /\ DrawCells(selected, m) /\ month' = m
      /\ UNCHANGED <<vars, tab, selected, redraw>>
  BY DEF Scroll, AtRest
<1>2. /\ header' \in Past
      /\ selected = {header'} /\ Month(header') = m
           => displayed' = checked \cap {header'}
  BY <1>1, DrawingIsOfHeader DEF CalendarInv, ScreenInv
<1> QED
  BY <1>1, <1>2 DEF CalendarInv, ScreenInv, ListIsOfHeader, vars, Past, Month

LEMMA NextKeepsScreen ==
  ASSUME CalendarInv, [CalendarNext]_<<vars, calendarVars>>
  PROVE  ScreenInv' /\ ListIsOfHeader'
<1>1. CASE OnHome  BY <1>1, OnHomeKeepsScreen DEF CalendarInv
<1>2. CASE Elsewhere  BY <1>2, ElsewhereKeepsScreen DEF CalendarInv
<1>3. CASE ShowCalendar  BY <1>3, ShowCalendarKeepsScreen
<1>4. CASE CellsDrawn  BY <1>4, CellsDrawnKeepsScreen
<1>5. CASE \E d \in Day : SelectDate(d)  BY <1>5, SelectDateKeepsScreen
<1>6. CASE \E m \in Month(Established) .. Month(MaxDay) : Scroll(m)
  BY <1>6, ScrollKeepsScreen
<1>7. CASE ShowHome
  BY <1>7 DEF ShowHome, CalendarInv, ScreenInv, ListIsOfHeader, AtRest, vars, Past, Day
<1>8. CASE UNCHANGED <<vars, calendarVars>>
  BY <1>8 DEF calendarVars, CalendarInv, ScreenInv, ListIsOfHeader, AtRest, vars,
              Past, Day, Month
<1> QED
  BY <1>1, <1>2, <1>3, <1>4, <1>5, <1>6, <1>7, <1>8 DEF CalendarNext

LEMMA InvHolds == CalendarSpec => []CalendarInv
<1>1. CalendarInv /\ [CalendarNext]_<<vars, calendarVars>> => CalendarInv'
  BY NextKeepsDays, NextKeepsScreen DEF CalendarInv
<1> QED  BY InitHolds, <1>1, PTL DEF CalendarSpec

-----------------------------------------------------------------------------

\* Every checked day has its place in the array Detail sizes by the days since
\* the habit was established, whatever was checked, however late the list.
THEOREM ChecksStayInRange == CalendarSpec => []ChecksInRange
<1>1. CalendarInv => ChecksInRange
  BY DaysAssumption DEF CalendarInv, DaysInv, ChecksInRange, Interval, Past, Day
<1> QED  BY InvHolds, <1>1, PTL

\* Where the selected cell can be seen and is the header's day, the list is what
\* was done that day, whatever was selected, scrolled and shown before.
THEOREM CalendarListsItsDay == CalendarSpec => []ListIsOfHeader
<1>1. CalendarInv => ListIsOfHeader
  BY DEF CalendarInv
<1> QED  BY InvHolds, <1>1, PTL

\* No tap and no passing of midnight touches the check of a day that is over.
THEOREM PastIsKept == CalendarSpec => PastDaysKept
<1>1. ASSUME [CalendarNext]_<<vars, calendarVars>>
      PROVE  [\A d \in Established .. MaxDay :
                d # today => (d \in checked' <=> d \in checked)]_vars
  <2>1. CASE OnHome  BY <2>1 DEF OnHome, Done, Undo
  <2>2. CASE UNCHANGED checked  BY <2>2
  <2>3. OnHome \/ UNCHANGED checked
    BY <1>1
    DEF CalendarNext, Elsewhere, HearOfHabits, HearAgain, Midnight, ShowCalendar,
        ShowHome, CellsDrawn, SelectDate, Scroll, vars
  <2> QED  BY <2>1, <2>2, <2>3
<1> QED  BY <1>1, PTL DEF CalendarSpec, PastDaysKept
-----------------------------------------------------------------------------
(* The loops of the statistics                                             *)

\* Every day of a stretch of the array is checked.
Every(s, a, b) == \A j \in a .. b : s[j]

\* k is the number of checked days that end at i, as far back as they go.
Back(s, i, k) ==
  /\ k \in 0 .. i
  /\ Every(s, i - k + 1, i)
  /\ k < i => ~s[i - k]

LEMMA BackOneMore ==
  ASSUME NEW s, NEW i \in Nat \ {0}, NEW k, Back(s, i - 1, k)
  PROVE  Back(s, i, IF s[i] THEN k + 1 ELSE 0)
<1>1. k \in 0 .. i - 1 /\ i - 1 \in Nat
  BY DEF Back
<1>2. CASE s[i]
  <2>1. k + 1 \in 0 .. i /\ i - (k + 1) = i - 1 - k
    BY <1>1
  <2>2. Every(s, i - (k + 1) + 1, i)
    <3>1. \A j \in i - (k + 1) + 1 .. i : j = i \/ j \in i - 1 - k + 1 .. i - 1
      BY <1>1
    <3>. QED
      BY <1>2, <3>1 DEF Every, Back
  <2>3. k + 1 < i => ~s[i - (k + 1)]
    BY <1>1, <2>1 DEF Back
  <2>. QED
    BY <1>2, <2>1, <2>2, <2>3 DEF Back
<1>3. CASE ~s[i]
  <2>1. 0 \in 0 .. i /\ i - 0 = i /\ i - 0 + 1 .. i = {}
    OBVIOUS
  <2>. QED
    BY <1>3, <2>1 DEF Back, Every
<1>. QED
  BY <1>2, <1>3

\* The loop of the current streak goes back over the checked days before today.
LEMMA StreakGoesBack ==
  ASSUME NEW n \in Nat, NEW s \in Seq(BOOLEAN), Len(s) = n + 1
  PROVE  Back(s, n, StreakBack(s))
<1> DEFINE Res(r) == r = [i \in 0 .. n |-> IF i = 0 \/ ~s[i] THEN 0 ELSE 1 + r[i - 1]]
<1>1. \E r : Res(r)
  <2>1. PICK turn : turn = [i \in 1 .. n |-> [a \in Nat |-> IF s[i] THEN 1 + a ELSE 0]]
    OBVIOUS
  <2>2. turn \in [1 .. n -> [Nat -> Nat]] /\ 0 \in Nat
    BY <2>1
  <2>3. PICK g \in [0 .. n -> Nat] : Turns(g, n, 0, turn)
    BY <2>2, LoopRuns
  <2>4. \A i \in 1 .. n : g[i] = IF s[i] THEN 1 + g[i - 1] ELSE 0
    <3>1. TAKE i \in 1 .. n
    <3>2. g[i] = turn[i][g[i - 1]] /\ g[i - 1] \in Nat
      BY <2>3 DEF Turns
    <3>3. turn[i] = [a \in Nat |-> IF s[i] THEN 1 + a ELSE 0]
      BY <2>1
    <3>. QED
      BY <3>2, <3>3
  <2>5. g[0] = 0
    BY <2>3 DEF Turns
  <2>. QED
    BY <2>3, <2>4, <2>5
<1>2. StreakBack(s) = (CHOOSE r : Res(r))[n]
  <2>1. Len(s) - 1 = n
    OBVIOUS
  <2>. QED
    BY <2>1 DEF StreakBack
<1>3. PICK r : r = (CHOOSE x : Res(x)) /\ Res(r)
  BY <1>1
<1>4. r = [i \in 0 .. n |-> IF i = 0 \/ ~s[i] THEN 0 ELSE 1 + r[i - 1]]
  BY <1>3
<1>. HIDE DEF Res
<1>5. PICK T : T = {i \in 0 .. n : Back(s, i, r[i])}
  OBVIOUS
<1>6. 0 \in T
  <2>1. r[0] = 0 /\ 0 \in 0 .. 0 /\ 0 - 0 + 1 .. 0 = {}
    BY <1>4
  <2>. QED
    BY <1>5, <2>1 DEF Back, Every
<1>7. ASSUME NEW i \in 1 .. n, i - 1 \in T PROVE i \in T
  <2>1. Back(s, i - 1, r[i - 1]) /\ i \in 0 .. n /\ i # 0 /\ i \in Nat \ {0}
    BY <1>5, <1>7
  <2>2. r[i] = IF i = 0 \/ ~s[i] THEN 0 ELSE 1 + r[i - 1]
    BY <1>4, <2>1, Zenon
  <2>3. r[i - 1] \in Nat
    BY <2>1 DEF Back
  <2>4. r[i] = IF s[i] THEN r[i - 1] + 1 ELSE 0
    BY <2>1, <2>2, <2>3
  <2>. QED
    BY <1>5, <2>1, <2>4, BackOneMore
<1>8. n \in T
  <2>1. 0 .. n \subseteq T
    BY <1>6, <1>7, Throughout
  <2>. QED
    BY <2>1
<1>. QED
  BY <1>2, <1>3, <1>5, <1>8

\* m is the length of the longest stretch of checked days among the first l.
IsLongest(s, l, m) ==
  /\ m \in Nat
  /\ \A a, b \in 1 .. l : a <= b /\ Every(s, a, b) => b - a + 1 <= m
  /\ m > 0 => \E a \in 1 .. l : a + m - 1 \in 1 .. l /\ Every(s, a, a + m - 1)

LEMMA LongestOneMore ==
  ASSUME NEW s, NEW i \in Nat \ {0}, NEW cur, Back(s, i, cur),
         NEW m, IsLongest(s, i - 1, m)
  PROVE  IsLongest(s, i, IF cur > m THEN cur ELSE m)
<1>1. cur \in 0 .. i /\ m \in Nat /\ i - 1 \in Nat
  BY DEF Back, IsLongest
<1>2. PICK most \in Nat : most = IF cur > m THEN cur ELSE m
  BY <1>1
<1>3. ASSUME NEW a \in 1 .. i, NEW b \in 1 .. i, a <= b, Every(s, a, b)
      PROVE  b - a + 1 <= most
  <2>1. CASE b # i
    <3>1. a \in 1 .. i - 1 /\ b \in 1 .. i - 1
      BY <1>3, <2>1
    <3>2. b - a + 1 <= m
      BY <1>3, <3>1 DEF IsLongest
    <3>. QED
      BY <1>1, <1>2, <3>1, <3>2
  <2>2. CASE b = i
    <3>1. SUFFICES ASSUME ~(i - a + 1 <= cur) PROVE FALSE
      BY <1>1, <1>2, <2>2
    <3>2. cur < i /\ i - cur \in a .. b
      BY <1>1, <2>2, <3>1
    <3>. QED
      BY <1>3, <3>2 DEF Back, Every
  <2>. QED
    BY <2>1, <2>2
<1>4. ASSUME most > 0
      PROVE  \E a \in 1 .. i : a + most - 1 \in 1 .. i /\ Every(s, a, a + most - 1)
  <2>1. CASE cur > m
    <3>1. most = cur
      BY <1>2, <2>1
    <3>2. i - cur + 1 \in 1 .. i /\ i - cur + 1 + most - 1 = i /\ i \in 1 .. i
      BY <1>1, <1>4, <3>1
    <3>3. Every(s, i - cur + 1, i)
      BY DEF Back
    <3>. QED
      BY <3>2, <3>3
  <2>2. CASE ~(cur > m)
    <3>1. most = m
      BY <1>2, <2>2
    <3>2. PICK a \in 1 .. i - 1 : a + m - 1 \in 1 .. i - 1 /\ Every(s, a, a + m - 1)
      BY <1>4, <3>1 DEF IsLongest
    <3>3. a \in 1 .. i /\ a + m - 1 \in 1 .. i
      BY <1>1, <3>2
    <3>. QED
      BY <3>1, <3>2, <3>3
  <2>. QED
    BY <2>1, <2>2
<1>. QED
  BY <1>2, <1>3, <1>4 DEF IsLongest

\* The loop of the longest record finds it.
LEMMA LongestIsFound ==
  ASSUME NEW n \in Nat, NEW s \in Seq(BOOLEAN), Len(s) = n
  PROVE  IsLongest(s, n, LongestStreak(s))
<1> DEFINE zero == [cur |-> 0, max |-> 0]
           Counted == [cur : Nat, max : Nat]
           Res(r) == r = [i \in 0 .. n |-> IF i = 0 THEN zero ELSE Count(r[i - 1], s[i])]
<1>1. \A a \in Counted, v \in BOOLEAN : Count(a, v) \in Counted
  BY DEF Count
<1>2. \E r : Res(r)
  <2>1. PICK turn : turn = [i \in 1 .. n |-> [a \in Counted |-> Count(a, s[i])]]
    OBVIOUS
  <2>2. \A i \in 1 .. n : s[i] \in BOOLEAN
    OBVIOUS
  <2>3. zero \in Counted
    OBVIOUS
  <2>. HIDE DEF Counted, zero
  <2>4. turn \in [1 .. n -> [Counted -> Counted]]
    BY <1>1, <2>1, <2>2
  <2>5. PICK g \in [0 .. n -> Counted] : Turns(g, n, zero, turn)
    BY <2>3, <2>4, LoopRuns
  <2>6. \A i \in 1 .. n : g[i] = Count(g[i - 1], s[i])
    <3>1. TAKE i \in 1 .. n
    <3>2. g[i] = turn[i][g[i - 1]] /\ g[i - 1] \in Counted
      BY <2>5 DEF Turns
    <3>3. turn[i] = [a \in Counted |-> Count(a, s[i])]
      BY <2>1
    <3>. QED
      BY <3>2, <3>3
  <2>7. g[0] = zero
    BY <2>5 DEF Turns
  <2>8. g = [i \in 0 .. n |-> IF i = 0 THEN zero ELSE Count(g[i - 1], s[i])]
    BY <2>5, <2>6, <2>7
  <2>. QED
    BY <2>8
<1>3. LongestStreak(s) = (CHOOSE r : Res(r))[n].max
  BY DEF LongestStreak
<1>4. PICK r : r = (CHOOSE x : Res(x)) /\ Res(r)
  BY <1>2
<1>5. r = [i \in 0 .. n |-> IF i = 0 THEN zero ELSE Count(r[i - 1], s[i])]
  BY <1>4
<1>. HIDE DEF Res
<1>6. PICK T : T = {i \in 0 .. n : Back(s, i, r[i].cur) /\ IsLongest(s, i, r[i].max)}
  OBVIOUS
<1>7. 0 \in T
  <2>1. r[0].cur = 0 /\ r[0].max = 0
    BY <1>5
  <2>2. Back(s, 0, 0)
    <3>1. 0 \in 0 .. 0 /\ 0 - 0 + 1 .. 0 = {}
      OBVIOUS
    <3>. QED
      BY <3>1 DEF Back, Every
  <2>3. IsLongest(s, 0, 0)
    BY DEF IsLongest
  <2>. QED
    BY <1>6, <2>1, <2>2, <2>3
<1>8. ASSUME NEW i \in 1 .. n, i - 1 \in T PROVE i \in T
  <2>1. /\ Back(s, i - 1, r[i - 1].cur) /\ IsLongest(s, i - 1, r[i - 1].max)
        /\ i \in 0 .. n /\ i # 0 /\ i \in Nat \ {0}
    BY <1>6, <1>8
  <2>2. r[i] = Count(r[i - 1], s[i])
    BY <1>5, <2>1
  <2>3. /\ r[i].cur = IF s[i] THEN r[i - 1].cur + 1 ELSE 0
        /\ r[i].max = IF r[i].cur > r[i - 1].max THEN r[i].cur ELSE r[i - 1].max
    BY <2>2 DEF Count
  <2>4. Back(s, i, r[i].cur)
    BY <2>1, <2>3, BackOneMore
  <2>5. IsLongest(s, i, r[i].max)
    BY <2>1, <2>3, <2>4, LongestOneMore
  <2>. QED
    BY <1>6, <2>1, <2>4, <2>5
<1>9. n \in T
  <2>1. 0 .. n \subseteq T
    BY <1>7, <1>8, Throughout
  <2>. QED
    BY <2>1
<1>. QED
  BY <1>3, <1>4, <1>6, <1>9
-----------------------------------------------------------------------------
(* What the statistics say                                                 *)

\* The array has a place for every day from the first to today.
LEMMA ArrayOfDays ==
  ASSUME DaysInv, NEW s, s = IfChecked(habit.checkedDays, Established)
  PROVE  /\ today \in Nat /\ Established \in Nat /\ today >= Established
         /\ s \in Seq(BOOLEAN) /\ Len(s) = today - Established + 1
         /\ \A i \in 1 .. Len(s) : s[i] <=> Established + i - 1 \in habit.checkedDays
         /\ habit.checkedDays \subseteq Established .. today
<1>1. /\ today \in Nat /\ Established \in Nat /\ today >= Established
      /\ habit.checkedDays \subseteq Established .. today
  BY DaysAssumption DEF DaysInv, Day, Past
<1>2. PICK l \in Nat : l = today - Established + 1
  <2>1. today - Established + 1 \in Nat
    BY <1>1
  <2>. QED
    BY <2>1
<1>3. s = [i \in 1 .. l |-> Established + i - 1 \in habit.checkedDays]
  <2>1. 1 + (today - Established) = l
    BY <1>1, <1>2
  <2>. QED
    BY <2>1 DEF IfChecked, Interval
<1>4. \A i \in 1 .. l : (Established + i - 1 \in habit.checkedDays) \in BOOLEAN
  OBVIOUS
<1>5. s \in [1 .. l -> BOOLEAN]
  BY <1>3, <1>4
<1>6. s \in Seq(BOOLEAN) /\ Len(s) = l
  BY <1>2, <1>5
<1>7. \A i \in 1 .. l : s[i] <=> Established + i - 1 \in habit.checkedDays
  BY <1>3
<1>. QED
  BY <1>1, <1>2, <1>6, <1>7

\* A stretch of the array is a run of days.
LEMMA StretchIsRun ==
  ASSUME DaysInv, NEW s, s = IfChecked(habit.checkedDays, Established),
         NEW a \in Established .. today + 1, NEW b \in Established - 1 .. today
  PROVE  Every(s, a - Established + 1, b - Established + 1) <=> IsRun(a, b)
<1>1. /\ today \in Nat /\ Established \in Nat /\ today >= Established
      /\ Len(s) = today - Established + 1
      /\ \A i \in 1 .. Len(s) : s[i] <=> Established + i - 1 \in habit.checkedDays
  BY ArrayOfDays
<1>2. ASSUME IsRun(a, b), NEW j \in a - Established + 1 .. b - Established + 1
      PROVE  s[j]
  <2>1. j \in 1 .. Len(s) /\ Established + j - 1 \in a .. b
    BY <1>1
  <2>. QED
    BY <1>1, <1>2, <2>1 DEF IsRun
<1>3. ASSUME Every(s, a - Established + 1, b - Established + 1), NEW d \in a .. b
      PROVE  d \in habit.checkedDays
  <2>1. PICK j : j = d - Established + 1
    OBVIOUS
  <2>2. /\ j \in 1 .. Len(s) /\ Established + j - 1 = d
        /\ j \in a - Established + 1 .. b - Established + 1
    BY <1>1, <2>1
  <2>. QED
    BY <1>1, <1>3, <2>2 DEF Every
<1>. QED
  BY <1>2, <1>3 DEF Every, IsRun

LEMMA LongestHolds == ASSUME DaysInv PROVE LongestStreakIsRun
<1>1. PICK s : s = IfChecked(habit.checkedDays, Established)
  OBVIOUS
<1>2. /\ today \in Nat /\ Established \in Nat /\ today >= Established
      /\ s \in Seq(BOOLEAN) /\ Len(s) = today - Established + 1
  BY <1>1, ArrayOfDays
<1>3. PICK l \in Nat : l = Len(s)
  BY <1>2
<1>4. PICK longest : longest = LongestStreak(s) /\ IsLongest(s, l, longest)
  BY <1>2, <1>3, LongestIsFound
<1>5. ASSUME NEW a \in Established .. today, NEW b \in Established .. today,
             a <= b, IsRun(a, b)
      PROVE  b - a + 1 <= longest
  <2>1. /\ a - Established + 1 \in 1 .. l /\ b - Established + 1 \in 1 .. l
        /\ a - Established + 1 <= b - Established + 1
        /\ (b - Established + 1) - (a - Established + 1) + 1 = b - a + 1
        /\ a \in Established .. today + 1 /\ b \in Established - 1 .. today
    BY <1>2, <1>3, <1>5
  <2>2. Every(s, a - Established + 1, b - Established + 1)
    BY <1>1, <1>5, <2>1, StretchIsRun
  <2>. QED
    BY <1>4, <2>1, <2>2 DEF IsLongest
<1>6. ASSUME longest > 0
      PROVE  \E a \in Established .. today :
               /\ a + longest - 1 \in Established .. today
               /\ IsRun(a, a + longest - 1)
  <2>1. PICK i \in 1 .. l : i + longest - 1 \in 1 .. l /\ Every(s, i, i + longest - 1)
    BY <1>4, <1>6 DEF IsLongest
  <2>2. longest \in Nat
    BY <1>4 DEF IsLongest
  <2>3. PICK a : a = Established + i - 1
    OBVIOUS
  <2>4. /\ a \in Established .. today /\ a + longest - 1 \in Established .. today
        /\ a - Established + 1 = i
        /\ (a + longest - 1) - Established + 1 = i + longest - 1
        /\ a \in Established .. today + 1
        /\ a + longest - 1 \in Established - 1 .. today
    BY <1>2, <1>3, <2>1, <2>2, <2>3
  <2>5. IsRun(a, a + longest - 1)
    BY <1>1, <2>1, <2>4, StretchIsRun
  <2>. QED
    BY <2>4, <2>5
<1>. QED
  BY <1>1, <1>4, <1>5, <1>6 DEF LongestStreakIsRun

\* Going back from the day before today, and today with it if it is checked.
LEMMA CurrentHolds == ASSUME DaysInv PROVE CurrentStreakIsRun
<1>1. PICK s : s = IfChecked(habit.checkedDays, Established)
  OBVIOUS
<1>2. /\ today \in Nat /\ Established \in Nat /\ today >= Established
      /\ s \in Seq(BOOLEAN) /\ Len(s) = today - Established + 1
      /\ \A i \in 1 .. Len(s) : s[i] <=> Established + i - 1 \in habit.checkedDays
      /\ habit.checkedDays \subseteq Established .. today
  BY <1>1, ArrayOfDays
<1>3. PICK n \in Nat : n = today - Established /\ Len(s) = n + 1
  <2>1. today - Established \in Nat
    BY <1>2
  <2>. QED
    BY <1>2, <2>1
<1>4. s[n + 1] <=> today \in habit.checkedDays
  <2>1. n + 1 \in 1 .. Len(s) /\ Established + (n + 1) - 1 = today
    BY <1>2, <1>3
  <2>. QED
    BY <1>2, <2>1
<1>5. PICK k : CurrentStreak(s) = k + (IF s[n + 1] THEN 1 ELSE 0) /\ Back(s, n, k)
  <2>1. CASE n = 0
    <3>1. Len(s) = 1
      BY <1>3, <2>1
    <3>2. CurrentStreak(s) = IF s[1] THEN 1 ELSE 0
      BY <3>1 DEF CurrentStreak
    <3>3. Back(s, 0, 0)
      <4>1. 0 \in 0 .. 0 /\ 0 - 0 + 1 .. 0 = {}
        OBVIOUS
      <4>. QED
        BY <4>1 DEF Back, Every
    <3>4. CurrentStreak(s) = 0 + (IF s[n + 1] THEN 1 ELSE 0)
      BY <2>1, <3>2
    <3>. QED
      BY <2>1, <3>3, <3>4
  <2>2. CASE n # 0
    <3>1. Len(s) # 1 /\ s[Len(s)] = s[n + 1]
      BY <1>3, <2>2
    <3>2. CurrentStreak(s) = StreakBack(s) + (IF s[n + 1] THEN 1 ELSE 0)
      BY <3>1 DEF CurrentStreak, Last
    <3>. QED
      BY <1>2, <1>3, <3>2, StreakGoesBack
  <2>. QED
    BY <2>1, <2>2
<1>6. /\ k \in 0 .. n /\ IsRun(today - k, today - 1)
      /\ today - 1 - k \notin habit.checkedDays
  <2>1. k \in 0 .. n /\ Every(s, n - k + 1, n) /\ (k < n => ~s[n - k])
    BY <1>5 DEF Back
  <2>2. /\ today - k - Established + 1 = n - k + 1 /\ today - 1 - Established + 1 = n
        /\ today - k \in Established .. today + 1
        /\ today - 1 \in Established - 1 .. today
    BY <1>2, <1>3, <2>1
  <2>3. IsRun(today - k, today - 1)
    BY <1>1, <2>1, <2>2, StretchIsRun
  <2>4. CASE k < n
    <3>1. n - k \in 1 .. Len(s) /\ Established + (n - k) - 1 = today - 1 - k
      BY <1>2, <1>3, <2>1, <2>4
    <3>. QED
      BY <1>2, <2>1, <2>3, <2>4, <3>1
  <2>5. CASE k = n
    <3>1. today - 1 - k \notin Established .. today
      BY <1>2, <1>3, <2>5
    <3>. QED
      BY <1>2, <2>1, <2>3, <3>1
  <2>. QED
    BY <2>1, <2>4, <2>5
<1>7. CASE today \in habit.checkedDays
  <2>1. CurrentStreak(s) = k + 1
    BY <1>4, <1>5, <1>7
  <2>2. /\ k + 1 \in Nat /\ today - (k + 1) + 1 = today - k
        /\ today - (k + 1) = today - 1 - k
    BY <1>2, <1>6
  <2>3. IsRun(today - k, today)
    <3>1. \A d \in today - k .. today : d = today \/ d \in today - k .. today - 1
      BY <1>2, <1>6
    <3>. QED
      BY <1>6, <1>7, <3>1 DEF IsRun
  <2>. QED
    BY <1>1, <1>6, <1>7, <2>1, <2>2, <2>3 DEF CurrentStreakIsRun
<1>8. CASE today \notin habit.checkedDays
  <2>1. CurrentStreak(s) = k
    BY <1>4, <1>5, <1>6, <1>8
  <2>2. k \in Nat /\ today - 1 - k + 1 = today - k
    BY <1>2, <1>6
  <2>. QED
    BY <1>1, <1>6, <1>8, <2>1, <2>2 DEF CurrentStreakIsRun
<1>. QED
  BY <1>7, <1>8

LEMMA MissedHolds == ASSUME DaysInv PROVE MissedCounts
<1>1. PICK s : s = IfChecked(habit.checkedDays, Established)
  OBVIOUS
<1>2. /\ today \in Nat /\ Established \in Nat /\ today >= Established
      /\ Len(s) = today - Established + 1
      /\ habit.checkedDays \subseteq Established .. today
  BY <1>1, ArrayOfDays
<1>3. PICK all, done : all = Established .. today /\ done = habit.checkedDays
  OBVIOUS
<1>4. IsFiniteSet(all) /\ Cardinality(all) = Len(s)
  BY <1>2, <1>3, FS_Interval
<1>5. IsFiniteSet(done) /\ Cardinality(done) \in Nat
  BY <1>2, <1>3, <1>4, FS_Subset, FS_CardinalityType
<1>6. Cardinality(all \ done) = Cardinality(all) - Cardinality(all \cap done)
  BY <1>4, FS_Difference
<1>7. all \cap done = done
  BY <1>2, <1>3
<1>. QED
  BY <1>1, <1>3, <1>4, <1>6, <1>7 DEF MissedCounts, Missed

\* Whatever was checked and undone and however old the list is, the longest
\* record, the current streak and the missed days are what the words mean.
THEOREM StatisticsHold == CalendarSpec => []StatisticsAreRight
<1>1. CalendarInv => StatisticsAreRight
  BY LongestHolds, CurrentHolds, MissedHolds DEF CalendarInv, StatisticsAreRight
<1> QED  BY InvHolds, <1>1, PTL
=============================================================================
