-------------------------- MODULE EventLoopProofs ----------------------------
(***************************************************************************)
(* What the loop counts, when it ends, the minute it shows and whose frame *)
(* it draws, for runs of any length, days of any length and any number of  *)
(* cards.  That it ends at all, and draws what was asked for, is liveness  *)
(* and stays with TLC.                                                     *)
(***************************************************************************)
EXTENDS EventLoop, CoreProofs

Seconds == Minute * Minutes

----------------------------------------------------------------------------
(* The clock                                                               *)

\* What is below m * n holds fewer than n whole m's, and a rest.
LEMMA Quotient ==
  ASSUME NEW m \in Nat \ {0}, NEW n \in Nat, NEW t \in 0..(m * n - 1)
  PROVE  /\ t \div m \in 0..(n - 1) /\ t % m \in 0..(m - 1)
         /\ t = m * (t \div m) + (t % m)
         /\ m * (t \div m) \in Nat /\ m * (t \div m) + m <= m * n
<1>1. t \in Nat /\ m * n \in Nat /\ t < m * n
  BY ProductGrows
<1>2. t \div m \in Nat /\ t % m \in 0..(m - 1) /\ t = m * (t \div m) + (t % m)
  BY <1>1, Division
<1> DEFINE q == t \div m
<1> DEFINE r == t % m
<1> HIDE DEF q, r
<1>3. q \in Nat /\ r \in 0..(m - 1) /\ t = m * q + r
  BY <1>2 DEF q, r
<1>4. q < n
  <2> SUFFICES ASSUME n <= q PROVE FALSE
    BY <1>3
  <2>1. m * n <= m * q /\ m * q \in Nat
    BY <1>3, ProductGrows
  <2> QED BY <1>1, <1>3, <2>1
<1>5. m * q \in Nat /\ m * q + m <= m * n
  BY <1>3, <1>4, ProductGrows
<1> QED BY <1>3, <1>4, <1>5 DEF q, r

\* A reading is so many minutes and so many seconds.
LEMMA MinuteFacts ==
  ASSUME NEW t \in 0..(Seconds - 1)
  PROVE  /\ t % Minute \in 0..(Minute - 1) /\ MinuteOf(t) \in 0..(Minutes - 1)
         /\ t = Minute * MinuteOf(t) + (t % Minute)
         /\ UntilNextMinute(t) \in 1..Minute
         /\ UntilNextMinute(t) = Minute - (t % Minute)
         /\ t + UntilNextMinute(t) = Minute * MinuteOf(t) + Minute
         /\ t + UntilNextMinute(t) <= Seconds
<1>1. Minute \in Nat \ {0} /\ Minutes \in Nat
  BY TimeAssumption
<1>2. /\ t \div Minute \in 0..(Minutes - 1) /\ t % Minute \in 0..(Minute - 1)
      /\ t = Minute * (t \div Minute) + (t % Minute)
      /\ Minute * (t \div Minute) \in Nat /\ Minute * (t \div Minute) + Minute <= Seconds
  BY <1>1, Quotient DEF Seconds
<1> QED BY <1>1, <1>2 DEF UntilNextMinute, MinuteOf

\* A day in ticks.
LEMMA DayFacts ==
  /\ Second \in Nat \ {0} /\ Minute \in Nat \ {0} /\ Seconds \in Nat
  /\ Day \in Nat /\ Second * Minute \in Nat
<1>1. Second \in Nat \ {0} /\ Minute \in Nat \ {0} /\ Minutes \in Nat
  BY TimeAssumption
<1>2. Seconds \in Nat /\ Day = Second * Seconds
  BY <1>1, ProductGrows DEF Seconds, Day
<1>3. Second * Seconds \in Nat /\ Second * Minute \in Nat
  BY <1>1, <1>2, ProductGrows
<1> QED BY <1>1, <1>2, <1>3

\* Some seconds in ticks, a minute at most.
LEMMA WaitFacts ==
  ASSUME NEW u \in 1..Minute
  PROVE  Second * u \in Nat /\ Second <= Second * u /\ Second * u <= Second * Minute
<1>1. Second \in Nat /\ 1 \in Nat /\ u \in Nat /\ Minute \in Nat /\ 1 <= u /\ u <= Minute
  BY DayFacts
<1>2. Second * 1 <= Second * u /\ Second * u \in Nat
  BY <1>1, ProductGrows
<1>3. Second * u <= Second * Minute
  BY <1>1, ProductGrows
<1>4. Second * 1 = Second
  BY <1>1
<1> QED BY <1>2, <1>3, <1>4

\* Two readings less than a minute apart, with no full minute between them.
LEMMA OneMinute ==
  ASSUME NEW m \in Nat \ {0}, NEW p \in Nat, NEW q \in Nat,
         NEW r \in 0..(m - 1), NEW e \in 0..(m - 1), m * p + r = m * q + e
  PROVE  p = q
<1>1. CASE p < q
  <2>1. m * p + m <= m * q /\ m * p \in Nat /\ m * q \in Nat
    BY <1>1, ProductGrows
  <2> QED BY <2>1
<1>2. CASE q < p
  <2>1. m * q + m <= m * p /\ m * p \in Nat /\ m * q \in Nat
    BY <1>2, ProductGrows
  <2> QED BY <2>1
<1> QED BY <1>1, <1>2

\* The minute of a reading is the one whose seconds it is among.
LEMMA MinuteIs ==
  ASSUME NEW u \in 0..(Seconds - 1), NEW q \in Nat, Minute * q <= u, u < Minute * q + Minute
  PROVE  MinuteOf(u) = q
<1> DEFINE r == u % Minute
<1> DEFINE e == u - Minute * q
<1>1. Minute \in Nat \ {0} /\ Seconds \in Nat /\ Minute * q \in Nat
  BY TimeAssumption, ProductGrows DEF Seconds
<1>2. MinuteOf(u) \in Nat /\ u = Minute * MinuteOf(u) + r /\ r \in 0..(Minute - 1)
  BY <1>1, MinuteFacts, TimeAssumption
<1>3. e \in 0..(Minute - 1) /\ u = Minute * q + e
  BY <1>1
<1> HIDE DEF r, e
<1>4. Minute * MinuteOf(u) + r = Minute * q + e
  BY <1>2, <1>3
<1> QED BY <1>1, <1>2, <1>3, <1>4, OneMinute

\* A time of day is so many seconds and so many ticks.
LEMMA ReadingFacts ==
  ASSUME NEW t \in 0..(Day - 1)
  PROVE  /\ Reading(t) \in 0..(Seconds - 1) /\ t % Second \in 0..(Second - 1)
         /\ t = Second * Reading(t) + (t % Second) /\ Second * Reading(t) \in Nat
<1>1. Second \in Nat \ {0} /\ Seconds \in Nat
  BY TimeAssumption, ProductGrows DEF Seconds
<1> QED BY <1>1, Quotient DEF Day, Seconds, Reading

\* Ticks compare as the seconds they are read as.
LEMMA ReadingOrder ==
  ASSUME NEW t \in 0..(Day - 1), NEW c \in Nat
  PROVE  /\ Second * c <= t => c <= Reading(t)
         /\ t < Second * c => Reading(t) < c
<1> DEFINE y == Reading(t)
<1> DEFINE r == t % Second
<1>1. /\ Second \in Nat \ {0} /\ y \in Nat /\ r \in 0..(Second - 1)
      /\ t = Second * y + r /\ Second * y \in Nat
  BY ReadingFacts, TimeAssumption DEF Seconds
<1> HIDE DEF y, r
<1>2. /\ Second * c \in Nat
      /\ y < c => Second * y + Second <= Second * c
      /\ c <= y => Second * c <= Second * y
  BY <1>1, ProductGrows
<1>3. (Second * c <= t => c <= y) /\ (t < Second * c => y < c)
  BY <1>1, <1>2
<1> QED BY <1>3 DEF y

\* A time of day goes round by a tick.
LEMMA NextTick ==
  ASSUME NEW n \in Nat \ {0}, NEW x \in Nat
  PROVE  ((x % n) + 1) % n = (x + 1) % n
<1>1. /\ x \div n \in Nat /\ x % n \in 0..(n - 1) /\ x = n * (x \div n) + (x % n)
      /\ (x + 1) \div n \in Nat /\ (x + 1) % n \in 0..(n - 1)
      /\ x + 1 = n * ((x + 1) \div n) + ((x + 1) % n)
  <2>1. x + 1 \in Nat
    OBVIOUS
  <2> QED BY <2>1, Division
<1> DEFINE q == x \div n
<1> DEFINE r == x % n
<1> DEFINE p == (x + 1) \div n
<1> DEFINE e == (x + 1) % n
<1> HIDE DEF q, r, p, e
<1>2. /\ q \in Nat /\ r \in 0..(n - 1) /\ p \in Nat /\ e \in 0..(n - 1)
      /\ n * q + r + 1 = n * p + e /\ n * q \in Nat /\ n * p \in Nat
  BY <1>1, ProductGrows DEF q, r, p, e
<1>3. CASE r + 1 < n
  <2>1. n * q + (r + 1) = n * p + e /\ r + 1 \in 0..(n - 1)
    BY <1>2, <1>3
  <2>2. q = p
    BY <1>2, <2>1, OneMinute
  <2>3. e = r + 1 /\ (r + 1) % n = r + 1
    BY <1>2, <2>1, <2>2
  <2> QED BY <2>3 DEF r, e
<1>4. CASE r + 1 = n
  <2>1. n * (q + 1) = n * q + n
    BY <1>2
  <2>2. n * (q + 1) + 0 = n * p + e /\ q + 1 \in Nat /\ 0 \in 0..(n - 1)
    BY <1>2, <1>4, <2>1
  <2>3. q + 1 = p
    BY <1>2, <2>2, OneMinute
  <2>4. e = 0 /\ n % n = 0
    BY <1>2, <1>4, <2>1, <2>3
  <2> QED BY <1>4, <2>4 DEF r, e
<1> QED BY <1>2, <1>3, <1>4

LEMMA SomeTicksOn ==
  ASSUME NEW n \in Nat \ {0}, NEW x \in Nat, NEW d \in Nat
  PROVE  (x + d) % n \in 0..(n - 1)
<1>1. x + d \in Nat
  OBVIOUS
<1> QED BY <1>1, Division

\* A whole turn changes nothing.
LEMMA WholeTurn ==
  ASSUME NEW n \in Nat \ {0}, NEW x \in Nat, x - n \in 0..(n - 1)
  PROVE  x % n = x - n
<1> DEFINE p == x \div n
<1> DEFINE e == x % n
<1>1. p \in Nat /\ e \in 0..(n - 1) /\ x = n * p + e
  BY Division
<1> HIDE DEF p, e
<1>2. n * 1 = n
  OBVIOUS
<1>3. n * 1 + (x - n) = n * p + e
  BY <1>1, <1>2
<1>4. p = 1
  BY <1>1, <1>3, OneMinute
<1> QED BY <1>1, <1>2, <1>4 DEF e

----------------------------------------------------------------------------
(* What every step preserves                                               *)

Stats == [frames : Nat, count : [Causes -> Nat]]

Watches == [frames : Nat, count : [{"clock", "client", "input"} -> Nat]]

\* Only clients and keys ask for a frame; a timer draws its own.
AskersInv == pending \in {"client", "input", NoCause}

\* The watch begins with nothing to hold against anybody.
WatchInv == (watch = NoWatch => unasked = 0) /\ IdleVerdictIsRight

\* Where the wall clock is by the timer: at the reading, the ticks it cut off,
\* those that passed until the timer was armed, and those it has run since.
Ran(cut) == Second * clock + cut + slack + (Second * UntilNextMinute(clock) - due)

\* The timer was set for the end of the minute the clock was read in, and runs
\* as the wall clock does, unless that was set.
ClockInv ==
  /\ shown = MinuteOf(clock) /\ due <= Second * UntilNextMinute(clock)
  /\ due > 0 /\ ~stepped => \E cut \in 0..(Second - 1) : now = Ran(cut) % Day

Inv ==
  /\ TypeOK /\ HandlesDistinct(strip) /\ AskersInv
  /\ phase = "starting" => watch = NoWatch /\ clock = Reading(now)
  /\ WatchInv /\ BudgetEndsTheLoop /\ ClockInv

\* A step that leaves the counters right and ends a run that is spent.
FramesKept ==
  /\ stats' \in Stats /\ stop' \in BOOLEAN /\ unasked' \in Nat
  /\ WatchInv'
  /\ Spent(stats)' => Spent(stats) \/ stop'
  /\ stop => stop'

\* A frame that is drawn.
LEMMA RecordFacts ==
  ASSUME NEW s \in Stats, NEW cause \in Causes
  PROVE  /\ Record(s, cause) \in Stats
         /\ Record(s, cause).frames = s.frames + 1
         /\ Record(s, cause).count[cause] = s.count[cause] + 1
         /\ \A c \in Causes \ {cause} : Record(s, cause).count[c] = s.count[c]
BY DEF Record, Stats

LEMMA NoFrameKeeps ==
  ASSUME Inv, NoFrame, UNCHANGED <<exit_after, watch>>
  PROVE  FramesKept
BY DEF Inv, TypeOK, NoFrame, FramesKept, Stats, WatchInv, IdleVerdictIsRight, Unexplained,
       Drawn, From, Spent

\* The verdict, with one frame more: somebody's, or nobody's.
LEMMA VerdictKeeps ==
  ASSUME Inv, NEW cause \in Causes, stats' = Record(stats, cause), UNCHANGED watch,
         unasked' = IF watch # NoWatch /\ cause \in {"initial", "resized", "redraw"}
                    THEN unasked + 1 ELSE unasked
  PROVE  WatchInv' /\ unasked' \in Nat
<1>1. /\ stats \in Stats /\ unasked \in Nat /\ WatchInv
      /\ watch # NoWatch => watch \in Watches
  BY DEF Inv, TypeOK, Stats, Watches
<1>2. /\ stats'.frames = stats.frames + 1 /\ stats'.count[cause] = stats.count[cause] + 1
      /\ \A c \in Causes \ {cause} : stats'.count[c] = stats.count[c]
  BY <1>1, RecordFacts
<1>3. CASE watch = NoWatch
  BY <1>1, <1>3 DEF WatchInv, IdleVerdictIsRight
<1>4. CASE watch # NoWatch
  <2>1. /\ watch.frames \in Nat /\ stats.frames \in Nat
        /\ \A c \in {"clock", "client", "input"} : watch.count[c] \in Nat /\ stats.count[c] \in Nat
    BY <1>1, <1>4 DEF Watches, Stats, Causes
  <2>2. /\ \A c \in {"clock", "client", "input"} : stats.count[c] - watch.count[c] >= 0
        /\ stats.frames - watch.frames - (stats.count["clock"] - watch.count["clock"])
             - (stats.count["client"] - watch.count["client"])
             - (stats.count["input"] - watch.count["input"]) = unasked
    BY <1>1, <1>4 DEF WatchInv, IdleVerdictIsRight, Unexplained, Drawn, From
  <2>3. \A c \in {"clock", "client", "input"} :
          stats'.count[c] = IF c = cause THEN stats.count[c] + 1 ELSE stats.count[c]
    BY <1>2 DEF Causes
  <2>4. \A c \in {"clock", "client", "input"} : stats'.count[c] - watch.count[c] >= 0
    BY <2>1, <2>2, <2>3
  <2>5. stats'.frames - watch.frames - (stats'.count["clock"] - watch.count["clock"])
          - (stats'.count["client"] - watch.count["client"])
          - (stats'.count["input"] - watch.count["input"]) = unasked'
    BY <1>1, <1>2, <1>4, <2>1, <2>2, <2>3 DEF Causes
  <2> QED
    BY <1>1, <1>4, <2>4, <2>5 DEF WatchInv, IdleVerdictIsRight, Unexplained, Drawn, From
<1> QED BY <1>3, <1>4

LEMMA DrawKeeps ==
  ASSUME Inv, NEW cause \in Causes, NEW ok \in BOOLEAN, Draw(cause, ok),
         UNCHANGED <<exit_after, watch>>
  PROVE  FramesKept
<1>1. stats \in Stats /\ stop \in BOOLEAN /\ unasked \in Nat /\ WatchInv
  BY DEF Inv, TypeOK, Stats
<1>2. CASE ok
  <2>1. stats' = Record(stats, cause) /\ stop' = (stop \/ Spent(stats')) /\ stats' \in Stats
    BY <1>1, <1>2, RecordFacts DEF Draw
  <2>2. WatchInv' /\ unasked' \in Nat
    BY <1>2, <2>1, VerdictKeeps DEF Draw
  <2>3. Spent(stats)' = Spent(stats')
    BY DEF Spent
  <2> QED BY <2>1, <2>2, <2>3, Zenon DEF FramesKept
<1>3. CASE ~ok
  <2>1. stats' = stats /\ stop' = stop /\ unasked' = unasked
    BY <1>1, <1>3 DEF Draw
  <2> QED BY <2>1, NoFrameKeeps DEF NoFrame
<1> QED BY <1>2, <1>3

----------------------------------------------------------------------------
(* The cards                                                               *)

LEMMA FirstCards ==
  StripOK([EmptyStrip EXCEPT !.tabs = [i \in 1..FirstTabs |-> i - 1], !.next_id = FirstTabs])
<1> DEFINE t == [i \in 1..FirstTabs |-> i - 1]
<1> DEFINE s == [tabs |-> t, active |-> 0, pinned |-> NoTab, next_id |-> FirstTabs]
<1>1. FirstTabs \in Nat
  BY BoundsAssumption
<1>2. t \in Seq(Nat) /\ Len(t) = FirstTabs
  BY <1>1
<1>3. NoDuplicates(t) /\ \A id \in Elements(t) : id < FirstTabs
  BY <1>1, <1>2 DEF NoDuplicates, Elements
<1> HIDE DEF t
<1>4. [EmptyStrip EXCEPT !.tabs = t, !.next_id = FirstTabs] = s
  <2> SUFFICES ASSUME NEW n, n = [EmptyStrip EXCEPT !.tabs = t, !.next_id = FirstTabs]
               PROVE  n = s
    OBVIOUS
  <2> QED BY DEF EmptyStrip
<1>5. StripOK(s)
  BY <1>1, <1>2, <1>3 DEF StripOK, Strips, HandlesDistinct
<1> HIDE DEF s
<1>6. StripOK([EmptyStrip EXCEPT !.tabs = t, !.next_id = FirstTabs])
  BY <1>4, <1>5, Zenon
<1> QED BY <1>6 DEF t

----------------------------------------------------------------------------
(* The steps                                                               *)

TimeOK ==
  /\ now \in 0..(Day - 1) /\ clock \in 0..(Seconds - 1) /\ shown \in 0..(Minutes - 1)
  /\ due \in 0..(Second * Minute) /\ stepped \in BOOLEAN /\ slack \in Delays \cup {0} /\ ClockInv

LEMMA InvParts ==
  ASSUME Inv
  PROVE  TimeOK /\ StripOK(strip) /\ AskersInv
BY DEF Inv, TypeOK, TimeOK, StripOK, Seconds

LEMMA TimeNumbers ==
  ASSUME TimeOK
  PROVE  /\ now \in Nat /\ clock \in Nat /\ due \in Nat /\ slack \in Nat
         /\ clock \in 0..(Seconds - 1) /\ now \in 0..(Day - 1)
<1>1. Seconds \in Nat /\ Day \in Nat /\ Second * Minute \in Nat
  BY DayFacts
<1>2. slack \in Nat
  BY TimeAssumption DEF TimeOK
<1>3. due \in 0..(Second * Minute)
  BY DEF TimeOK
<1>4. clock \in 0..(Seconds - 1) /\ now \in 0..(Day - 1)
  BY DEF TimeOK
<1> QED BY <1>1, <1>2, <1>3, <1>4

\* What each step has to show.
LEMMA StepInv ==
  ASSUME Inv, phase' \in {"running", "done"}, UNCHANGED <<exit_after, idle>>,
         watch' = NoWatch \/ watch' \in Watches,
         AskersInv', StripOK(strip)', TimeOK', FramesKept,
         phase' = "running" /\ Spent(stats)' => stop'
  PROVE  Inv'
<1>1. TypeOK'
  BY DEF Inv, TypeOK, AskersInv, Causes, StripOK, TimeOK, Seconds, FramesKept, Stats, Watches
<1>2. BudgetEndsTheLoop'
  BY DEF BudgetEndsTheLoop
<1>3. (phase = "starting" => watch = NoWatch /\ clock = Reading(now))'
  OBVIOUS
<1> QED BY <1>1, <1>2, <1>3 DEF Inv, StripOK, TimeOK, FramesKept

\* A step within a running loop.
LEMMA RunningInv ==
  ASSUME Inv, phase = "running", UNCHANGED <<phase, exit_after, idle>>,
         watch' = NoWatch \/ watch' \in Watches,
         AskersInv', StripOK(strip)', TimeOK', FramesKept
  PROVE  Inv'
<1>1. phase' = "running" /\ (Spent(stats)' => stop')
  BY Zenon DEF Inv, BudgetEndsTheLoop, FramesKept
<1> QED BY <1>1, StepInv

LEMMA TimeStays ==
  ASSUME Inv, UNCHANGED clockVars
  PROVE  TimeOK'
BY InvParts DEF clockVars, TimeOK, ClockInv, Ran, MinuteOf, UntilNextMinute

LEMMA WatchStays == Inv /\ UNCHANGED watch => watch' = NoWatch \/ watch' \in Watches
BY DEF Inv, TypeOK, Watches

LEMMA RequestKeeps ==
  ASSUME AskersInv, NEW cause \in {"client", "input"}, RequestRedraw(cause)
  PROVE  AskersInv' /\ pending' # NoCause /\ (pending # NoCause => pending' = pending)
BY NoCauseAssumption DEF AskersInv, RequestRedraw, Causes

\* Nobody asked for a frame by moving the clock, the stop flag or nothing.
LEMMA ClientRequestInv == ASSUME Inv, ClientRequest PROVE Inv'
<1>1. /\ phase = "running" /\ RequestRedraw("client") /\ NoFrame
      /\ UNCHANGED <<phase, exit_after, idle, watch, strip, clockVars>>
  BY DEF ClientRequest, Handler, runVars
<1>2. AskersInv' /\ StripOK(strip)'
  BY <1>1, InvParts, RequestKeeps DEF StripOK, HandlesDistinct
<1> QED BY <1>1, <1>2, RunningInv, TimeStays, WatchStays, NoFrameKeeps

LEMMA DrawNowInv == ASSUME Inv, DrawNow PROVE Inv'
<1>1. PICK cause \in {"input", "resized", "redraw"}, ok \in BOOLEAN : Draw(cause, ok)
  BY DEF DrawNow
<1>2. /\ phase = "running"
      /\ UNCHANGED <<phase, exit_after, idle, watch, pending, strip, clockVars>>
  BY DEF DrawNow, Handler, runVars
<1>3. FramesKept
  BY <1>1, <1>2, DrawKeeps DEF Causes
<1>4. AskersInv' /\ StripOK(strip)'
  BY <1>2, InvParts DEF AskersInv, StripOK, HandlesDistinct
<1> QED BY <1>2, <1>3, <1>4, RunningInv, TimeStays, WatchStays

\* The loop is told to stop, by the user or the idle test.
LEMMA StopInv == ASSUME Inv, CloseRequested \/ EndIdleWatch PROVE Inv'
<1>1. /\ phase = "running" /\ stop' = TRUE /\ UNCHANGED <<stats, unasked>>
      /\ UNCHANGED <<phase, exit_after, idle, watch, pending, strip, clockVars>>
  BY DEF CloseRequested, EndIdleWatch, runVars
<1>2. AskersInv' /\ StripOK(strip)'
  BY <1>1, InvParts DEF AskersInv, StripOK, HandlesDistinct
<1>3. FramesKept
  BY <1>1 DEF Inv, TypeOK, FramesKept, Stats, WatchInv, IdleVerdictIsRight, Unexplained,
              Drawn, From, Spent
<1> QED BY <1>1, <1>2, <1>3, RunningInv, TimeStays, WatchStays

\* The keys and presses that change the cards.
LEMMA CardsInv ==
  ASSUME Inv, \/ \E forward \in BOOLEAN : SlideKey(forward)
              \/ \E id \in Elements(strip.tabs) : PressCard(id)
              \/ NewCard
  PROVE  /\ Inv' /\ pending' # NoCause
         /\ Elements(strip'.tabs) # Elements(strip.tabs) => ActiveTab(strip') = strip.next_id
<1>1. /\ phase = "running" /\ RequestRedraw("input") /\ NoFrame
      /\ UNCHANGED <<phase, exit_after, idle, watch, clockVars>>
  BY DEF SlideKey, PressCard, NewCard, Handler, runVars
<1>2. StripOK(strip) /\ AskersInv
  BY InvParts
<1>3. /\ StripOK(strip')
      /\ Elements(strip'.tabs) # Elements(strip.tabs) => ActiveTab(strip') = strip.next_id
  <2>1. CASE \E forward \in BOOLEAN : SlideKey(forward)
    BY <1>2, <2>1, SlideKeeps DEF SlideKey
  <2>2. CASE \E id \in Elements(strip.tabs) : PressCard(id)
    BY <1>2, <2>2, SetActiveKeeps DEF PressCard
  <2>3. CASE NewCard
    <3>1. StripOK(Add(strip)) /\ strip.next_id \in Elements(Add(strip).tabs)
      BY <1>2, AddKeeps
    <3> QED BY <2>3, <3>1, SetActiveKeeps DEF NewCard
  <2> QED BY <2>1, <2>2, <2>3
<1>4. AskersInv' /\ pending' # NoCause /\ StripOK(strip)'
  BY <1>1, <1>2, <1>3, RequestKeeps DEF StripOK, HandlesDistinct
<1> QED BY <1>1, <1>3, <1>4, RunningInv, TimeStays, WatchStays, NoFrameKeeps

\* A timer armed from a reading of the clock, some ticks after it.
LEMMA Armed ==
  ASSUME now \in 0..(Day - 1), NEW tick \in 0..(Second - 1), NEW d \in Delays,
         clock' \in 0..(Seconds - 1), now = Second * clock' + tick,
         Arm(UntilNextMinute(clock'), d), shown' = MinuteOf(clock'), stepped' \in BOOLEAN
  PROVE  TimeOK' /\ due' >= Second
<1> DEFINE u == UntilNextMinute(clock')
<1>1. /\ u \in 1..Minute /\ MinuteOf(clock') \in 0..(Minutes - 1)
      /\ UntilNextMinute(clock)' = u /\ MinuteOf(clock)' = MinuteOf(clock')
  BY MinuteFacts DEF UntilNextMinute, MinuteOf
<1>2. now' = (now + d) % Day /\ due' = Second * u /\ slack' = d
  BY DEF Arm
<1>3. Second \in Nat \ {0} /\ Minute \in Nat \ {0} /\ Seconds \in Nat /\ d \in Nat
  BY TimeAssumption, DayFacts
<1> HIDE DEF u
<1>4. /\ Second * u \in Nat /\ Second <= Second * u /\ Second * u <= Second * Minute
      /\ Second * Minute \in Nat /\ Second * clock' \in Nat
  <2>1. clock' \in Nat
    BY <1>3
  <2> QED BY <1>1, <1>3, <2>1, WaitFacts, DayFacts, ProductGrows
<1>5. Day \in Nat \ {0} /\ now \in Nat
  <2>1. Day \in Nat
    BY DayFacts
  <2> QED BY <2>1
<1>6. now' \in 0..(Day - 1)
  BY <1>2, <1>3, <1>5, SomeTicksOn, Zenon
<1>7. Ran(tick)' = now + d
  BY <1>1, <1>2, <1>3, <1>4 DEF Ran
<1>8. ClockInv'
  BY <1>1, <1>2, <1>4, <1>7 DEF ClockInv
<1> QED BY <1>1, <1>2, <1>3, <1>4, <1>6, <1>8 DEF TimeOK

LEMMA TickClockInv ==
  ASSUME Inv, TickClock
  PROVE  Inv' /\ due' >= Second /\ (stats' # stats => shown' # shown)
<1>1. /\ phase = "running" /\ ReadAgain /\ clock' = Reading(now) /\ stepped' = FALSE
      /\ UNCHANGED <<phase, exit_after, idle, watch, pending, strip>>
  BY DEF TickClock, ReadAgain, Handler, runVars
<1>2. TimeOK /\ StripOK(strip) /\ AskersInv /\ now \in 0..(Day - 1) /\ shown = MinuteOf(clock)
  BY InvParts DEF TimeOK, ClockInv
<1>3. /\ shown' = MinuteOf(clock') /\ FramesKept
      /\ stats' # stats => shown' # shown
  <2>1. CASE MinuteOf(clock') = MinuteOf(clock)
    <3>1. NoFrame /\ shown' = shown
      BY <1>1, <2>1 DEF ReadAgain
    <3> QED BY <1>1, <1>2, <2>1, <3>1, NoFrameKeeps DEF NoFrame
  <2>2. CASE MinuteOf(clock') # MinuteOf(clock)
    <3>1. PICK ok \in BOOLEAN : shown' = MinuteOf(clock') /\ Draw("clock", ok)
      BY <1>1, <2>2 DEF ReadAgain
    <3> QED BY <1>1, <1>2, <2>2, <3>1, DrawKeeps DEF Causes
  <2> QED BY <2>1, <2>2
<1>4. TimeOK' /\ due' >= Second
  <2>1. PICK d \in Delays : Arm(UntilNextMinute(clock'), d)
    BY DEF TickClock
  <2>2. /\ clock' \in 0..(Seconds - 1) /\ now % Second \in 0..(Second - 1)
        /\ now = Second * clock' + (now % Second)
    BY <1>1, <1>2, ReadingFacts
  <2> QED BY <1>1, <1>2, <1>3, <2>1, <2>2, Armed
<1>5. AskersInv' /\ StripOK(strip)'
  BY <1>1, <1>2 DEF AskersInv, StripOK, HandlesDistinct
<1> QED BY <1>1, <1>3, <1>4, <1>5, RunningInv, WatchStays

\* A tick goes by on the wall clock and on the timer.
LEMMA TimePassesInv == ASSUME Inv, TimePasses PROVE Inv'
<1>1. /\ phase = "running" /\ now' = (now + 1) % Day
      /\ due' = IF due = 0 THEN 0 ELSE due - 1
      /\ UNCHANGED <<phase, exit_after, idle, watch, pending, strip, clock, shown, stepped, slack>>
      /\ NoFrame
  BY DEF TimePasses, runVars, NoFrame
<1>2. TimeOK /\ StripOK(strip) /\ AskersInv
  BY InvParts
<1>3. AskersInv' /\ StripOK(strip)'
  BY <1>1, <1>2 DEF AskersInv, StripOK, HandlesDistinct
<1>4. TimeOK'
  <2> DEFINE u == UntilNextMinute(clock)
  <2>1. /\ u \in 1..Minute /\ UntilNextMinute(clock)' = u /\ MinuteOf(clock)' = MinuteOf(clock)
    BY <1>1, <1>2, MinuteFacts DEF TimeOK, UntilNextMinute, MinuteOf
  <2> HIDE DEF u
  <2>2. /\ Second \in Nat \ {0} /\ Minute \in Nat \ {0} /\ clock \in Nat /\ slack \in Nat
        /\ Second * Minute \in Nat /\ Second * u \in Nat /\ Second * clock \in Nat
    BY <1>2, <2>1, TimeAssumption, ProductGrows DEF TimeOK
  <2>3. now \in 0..(Day - 1) /\ Day \in Nat \ {0} /\ due \in 0..(Second * Minute) /\ due <= Second * u
    <3>1. now \in 0..(Day - 1) /\ due \in 0..(Second * Minute) /\ due <= Second * u
      BY <1>2 DEF TimeOK, ClockInv, u
    <3>2. Day \in Nat
      BY DayFacts
    <3> QED BY <3>1, <3>2
  <2>4. now' \in 0..(Day - 1) /\ due' \in 0..(Second * Minute) /\ due' <= Second * u
    BY <1>1, <2>2, <2>3
  <2>5. ASSUME due' > 0, ~stepped
        PROVE  \E cut \in 0..(Second - 1) : now' = Ran(cut)' % Day
    <3>1. due > 0 /\ due' = due - 1
      BY <1>1, <2>3, <2>5
    <3>2. PICK cut \in 0..(Second - 1) : now = Ran(cut) % Day
      BY <1>2, <2>5, <3>1 DEF TimeOK, ClockInv
    <3>3. Ran(cut) = Second * clock + cut + slack + (Second * u - due)
      BY DEF Ran, u
    <3>4. Ran(cut)' = Second * clock + cut + slack + (Second * u - (due - 1))
      BY <1>1, <2>1, <3>1 DEF Ran
    <3>5. Ran(cut) \in Nat /\ Ran(cut)' = Ran(cut) + 1
      BY <2>2, <2>3, <3>3, <3>4
    <3>6. now' = ((Ran(cut) % Day) + 1) % Day
      BY <1>1, <3>2
    <3> QED BY <2>3, <3>5, <3>6, NextTick
  <2>6. ClockInv'
    BY <1>1, <1>2, <2>1, <2>4, <2>5 DEF TimeOK, ClockInv
  <2> QED BY <1>1, <1>2, <2>4, <2>6 DEF TimeOK
<1> QED BY <1>1, <1>3, <1>4, RunningInv, WatchStays, NoFrameKeeps

\* Somebody sets the clock: nothing is known of the minute until it is read.
LEMMA ClockIsSetInv == ASSUME Inv, ClockIsSet PROVE Inv'
<1>1. /\ phase = "running" /\ now' \in 0..(Day - 1) /\ stepped' = TRUE
      /\ UNCHANGED <<phase, exit_after, idle, watch, pending, strip, clock, shown, due, slack>>
      /\ NoFrame
  BY DEF ClockIsSet, runVars, NoFrame
<1>2. TimeOK /\ StripOK(strip) /\ AskersInv
  BY InvParts
<1>3. AskersInv' /\ StripOK(strip)'
  BY <1>1, <1>2 DEF AskersInv, StripOK, HandlesDistinct
<1>4. TimeOK'
  BY <1>1, <1>2 DEF TimeOK, ClockInv, UntilNextMinute, MinuteOf
<1> QED BY <1>1, <1>3, <1>4, RunningInv, WatchStays, NoFrameKeeps

\* The watch begins from the counters as they are: every difference is zero,
\* and no frame was drawn for nobody's sake before it began.
LEMMA BeginIdleWatchInv == ASSUME Inv, BeginIdleWatch PROVE Inv'
<1>1. /\ phase = "running" /\ watch = NoWatch
      /\ watch' = [frames |-> stats.frames,
                   count |-> [c \in {"clock", "client", "input"} |-> stats.count[c]]]
      /\ UNCHANGED <<phase, exit_after, idle, stop, pending, stats, strip, unasked>>
      /\ UNCHANGED clockVars
  BY DEF BeginIdleWatch
<1>2. stats \in Stats /\ unasked = 0 /\ stop \in BOOLEAN
  BY <1>1 DEF Inv, TypeOK, WatchInv, Stats
<1>3. watch' \in Watches
  BY <1>1, <1>2 DEF Stats, Watches, Causes
<1>4. /\ watch'.frames = stats.frames
      /\ \A c \in {"clock", "client", "input"} :
           watch'.count[c] = stats.count[c] /\ stats.count[c] \in Nat
      /\ stats.frames \in Nat
  BY <1>1, <1>2 DEF Stats, Causes
<1>5. WatchInv'
  BY <1>1, <1>2, <1>4 DEF WatchInv, IdleVerdictIsRight, Unexplained, Drawn, From
<1>6. FramesKept
  BY <1>1, <1>2, <1>5 DEF FramesKept, Spent
<1>7. AskersInv' /\ StripOK(strip)'
  BY <1>1, InvParts DEF AskersInv, StripOK, HandlesDistinct
<1> QED BY <1>1, <1>3, <1>6, <1>7, RunningInv, TimeStays

\* The first frame is drawn before the loop runs; a budget it spends is seen.
LEMMA StartInv == ASSUME Inv, Start PROVE Inv'
<1>1. PICK ok \in BOOLEAN : stats' = IF ok THEN Record(stats, "initial") ELSE stats
  BY DEF Start
<1>2. /\ watch = NoWatch /\ clock = Reading(now) /\ stop' = FALSE
      /\ phase' = IF Spent(stats') THEN "done" ELSE "running"
      /\ UNCHANGED <<exit_after, idle, watch, pending, strip, clock, shown, stepped, unasked>>
  BY DEF Start, Inv
<1>3. stats \in Stats /\ unasked = 0 /\ "initial" \in Causes
  BY <1>2 DEF Inv, TypeOK, WatchInv, Stats, Causes
<1>4. stats' \in Stats
  BY <1>1, <1>3, RecordFacts
<1>5. /\ phase' \in {"running", "done"} /\ (phase' = "running" => ~Spent(stats)')
  BY <1>2 DEF Spent
<1>10. TimeOK'
  <2>1. PICK d \in Delays : Arm(UntilNextMinute(clock), d)
    BY DEF Start
  <2>2. TimeOK /\ clock' = clock /\ shown' = MinuteOf(clock') /\ stepped' \in BOOLEAN
    BY <1>2, InvParts DEF TimeOK, ClockInv, MinuteOf
  <2>3. /\ now \in 0..(Day - 1) /\ clock' \in 0..(Seconds - 1) /\ now % Second \in 0..(Second - 1)
        /\ now = Second * clock' + (now % Second)
    BY <1>2, <2>2, ReadingFacts DEF TimeOK
  <2>4. Arm(UntilNextMinute(clock'), d)
    BY <2>1, <2>2
  <2> QED BY <2>2, <2>3, <2>4, Armed
<1>6. WatchInv'
  BY <1>2, <1>3 DEF WatchInv, IdleVerdictIsRight
<1>7. TypeOK'
  BY <1>2, <1>3, <1>4, <1>5, <1>10 DEF Inv, TypeOK, Stats, TimeOK, Seconds
<1>8. HandlesDistinct(strip)' /\ AskersInv'
  BY <1>2 DEF Inv, HandlesDistinct, AskersInv
<1>9. /\ BudgetEndsTheLoop' /\ ClockInv'
      /\ (phase = "starting" => watch = NoWatch /\ clock = Reading(now))'
  BY <1>5, <1>10 DEF BudgetEndsTheLoop, TimeOK
<1> QED BY <1>6, <1>7, <1>8, <1>9 DEF Inv

\* The end of a pass: what was asked for is drawn, once, and the flag looked at.
LEMMA EndPassInv == ASSUME Inv, EndPass PROVE Inv'
<1>1. /\ phase = "running" /\ pending' = NoCause
      /\ phase' = IF stop' THEN "done" ELSE "running"
      /\ UNCHANGED <<exit_after, idle, watch, strip, clockVars>>
  BY DEF EndPass
<1>2. FramesKept
  <2>1. CASE pending = NoCause
    BY <1>1, <2>1, NoFrameKeeps DEF EndPass
  <2>2. CASE pending # NoCause
    <3>1. PICK ok \in BOOLEAN : Draw(pending, ok)
      BY <2>2 DEF EndPass
    <3>2. pending \in Causes
      BY <2>2 DEF Inv, TypeOK
    <3> QED BY <1>1, <3>1, <3>2, DrawKeeps
  <2> QED BY <2>1, <2>2
<1>3. Spent(stats) => stop
  BY <1>1 DEF Inv, BudgetEndsTheLoop
<1>4. phase' \in {"running", "done"} /\ (phase' = "running" /\ Spent(stats)' => stop')
  BY <1>1, <1>2, <1>3, Zenon DEF FramesKept
<1>5. AskersInv' /\ StripOK(strip)'
  BY <1>1, InvParts DEF AskersInv, StripOK, HandlesDistinct
<1> QED BY <1>1, <1>2, <1>4, <1>5, StepInv, TimeStays, WatchStays

----------------------------------------------------------------------------
(* The invariant                                                           *)

LEMMA InitInv == ASSUME Init PROVE Inv
<1>1. /\ phase = "starting" /\ stop = FALSE /\ pending = NoCause
      /\ exit_after \in Budgets \cup {NoBudget} /\ idle \in BOOLEAN /\ watch = NoWatch
      /\ now \in 0..(Day - 1) /\ clock = Reading(now) /\ shown = MinuteOf(clock)
      /\ due = 0 /\ stepped = FALSE /\ slack = 0 /\ unasked = 0
  BY DEF Init
<1>2. stats \in Stats
  BY DEF Init, Stats, Causes
<1>3. StripOK(strip)
  BY FirstCards DEF Init
<1>4. TimeOK
  <2>1. clock \in 0..(Seconds - 1)
    BY <1>1, ReadingFacts
  <2>2. MinuteOf(clock) \in 0..(Minutes - 1) /\ UntilNextMinute(clock) \in 1..Minute
    BY <2>1, MinuteFacts
  <2>3. Second * UntilNextMinute(clock) \in Nat /\ Second * Minute \in Nat
    BY <2>2, WaitFacts, DayFacts
  <2>4. ClockInv
    BY <1>1, <2>3 DEF ClockInv
  <2>5. due \in 0..(Second * Minute) /\ slack \in Delays \cup {0} /\ stepped \in BOOLEAN
    <3>1. 0 \in 0..(Second * Minute)
      BY <2>3
    <3> QED BY <1>1, <3>1, Zenon
  <2> QED BY <1>1, <2>1, <2>2, <2>4, <2>5 DEF TimeOK
<1>5. TypeOK
  BY <1>1, <1>2, <1>3, <1>4 DEF TypeOK, Stats, StripOK, TimeOK, Seconds
<1>6. WatchInv /\ BudgetEndsTheLoop /\ AskersInv
  BY <1>1 DEF WatchInv, IdleVerdictIsRight, BudgetEndsTheLoop, AskersInv
<1> QED BY <1>1, <1>3, <1>4, <1>5, <1>6 DEF Inv, StripOK, TimeOK

LEMMA NextInv == ASSUME Inv, [Next]_vars PROVE Inv'
<1>1. CASE UNCHANGED vars
  <2>1. StripOK(strip)' /\ TimeOK'
    BY <1>1, InvParts, TimeStays DEF vars, StripOK, HandlesDistinct
  <2>2. TypeOK'
    BY <1>1, <2>1 DEF Inv, TypeOK, vars, runVars, StripOK, TimeOK, Seconds
  <2> QED
    BY <1>1, <2>1, <2>2 DEF Inv, vars, runVars, clockVars, Reading, StripOK, TimeOK, AskersInv, WatchInv,
       IdleVerdictIsRight, Unexplained, Drawn, From, BudgetEndsTheLoop, Spent
<1>2. CASE Next
  BY <1>2, StartInv, EndPassInv, ClientRequestInv, DrawNowInv, StopInv, CardsInv,
     TickClockInv, TimePassesInv, ClockIsSetInv, BeginIdleWatchInv DEF Next
<1> QED BY <1>1, <1>2

LEMMA SpecInv == Spec => []Inv
<1>1. Init => Inv
  BY InitInv
<1>2. Inv /\ [Next]_vars => Inv'
  BY NextInv
<1> QED BY <1>1, <1>2, PTL DEF Spec

----------------------------------------------------------------------------
(* The theorems                                                            *)

\* However long the loop runs, whatever fails to draw and whenever the watch
\* begins, every counter is in range and the idle test's verdict
\* (winit.rs:400-404) is exactly the number of frames drawn for nobody's sake
\* since: none of the subtractions it is made of goes below zero.
THEOREM FramesAlwaysCounted == Spec => []FramesAreCounted
<1>1. Inv => FramesAreCounted
  BY DEF Inv, WatchInv, FramesAreCounted
<1> QED BY <1>1, SpecInv, PTL

\* Whatever --frames says, no pass of the loop begins once that many frames
\* are drawn without the loop having been told to stop, the first frame
\* included, which is drawn before the loop clears its flag
\* (winit.rs:353-355, 613-616).
THEOREM BudgetIsKept == Spec => []BudgetEndsTheLoop
<1>1. Inv => BudgetEndsTheLoop
  BY DEF Inv
<1> QED BY <1>1, SpecInv, PTL

\* Where the wall clock is, a timer that runs undisturbed.
LEMMA WhereTheClockIs ==
  ASSUME Inv, due > 0, ~stepped
  PROVE  /\ clock \in 0..(Seconds - 1) /\ slack \in Nat /\ due \in Nat
         /\ shown = MinuteOf(clock) /\ due <= Second * UntilNextMinute(clock)
         /\ \E cut \in 0..(Second - 1) : now = Ran(cut) % Day
<1>1. TimeOK /\ ClockInv
  BY InvParts DEF TimeOK
<1> QED BY <1>1, TimeNumbers DEF ClockInv

\* Until the timer is nearly due the bar shows the minute it is.
LEMMA ShownIsRight == ASSUME Inv PROVE MinuteShownIsRight
<1> SUFFICES ASSUME ~stepped, due >= Second + slack PROVE shown = MinuteOf(Reading(now))
  BY DEF MinuteShownIsRight
<1> DEFINE u == UntilNextMinute(clock)
<1> DEFINE q == MinuteOf(clock)
<1>1. Second \in Nat \ {0} /\ Minute \in Nat \ {0} /\ slack \in Nat /\ due > 0
  <2>1. slack \in Nat /\ due \in Nat /\ Second \in Nat \ {0} /\ Minute \in Nat \ {0}
    BY InvParts, TimeNumbers, DayFacts
  <2> QED BY <2>1
<1>2. /\ clock \in 0..(Seconds - 1) /\ due \in Nat /\ shown = q /\ due <= Second * u
      /\ \E cut \in 0..(Second - 1) : now = Ran(cut) % Day
  BY <1>1, WhereTheClockIs
<1>3. /\ u \in 1..Minute /\ q \in Nat /\ clock + u = Minute * q + Minute
      /\ clock + u <= Seconds /\ clock \in Nat /\ Seconds \in Nat /\ Minute * q <= clock
  <2>1. Seconds \in Nat /\ Minutes \in Nat
    BY DayFacts, TimeAssumption
  <2>2. q \in 0..(Minutes - 1) /\ u \in 1..Minute /\ clock + u = Minute * q + Minute /\ clock + u <= Seconds
    BY <1>2, MinuteFacts
  <2>3. Minute * q \in Nat /\ clock \in Nat /\ q \in Nat
    BY <1>1, <1>2, <2>1, <2>2, ProductGrows
  <2> HIDE DEF u, q
  <2> QED BY <1>1, <2>1, <2>2, <2>3
<1>4. PICK cut \in 0..(Second - 1) : now = Ran(cut) % Day
  BY <1>2
<1>5. Ran(cut) = Second * clock + cut + slack + (Second * u - due)
  BY DEF Ran
<1> HIDE DEF u, q
<1>6. /\ Second * clock \in Nat /\ Second * u \in Nat /\ Second * (clock + u) \in Nat
      /\ Second * (clock + u) = Second * clock + Second * u
      /\ Second * (clock + u) <= Second * Seconds /\ Day = Second * Seconds /\ Day \in Nat
  BY <1>1, <1>3, ProductGrows DEF Day, Seconds
<1>7. Ran(cut) \in Nat /\ Second * clock <= Ran(cut) /\ Ran(cut) < Second * (clock + u)
  BY <1>1, <1>2, <1>5, <1>6
<1>8. now = Ran(cut) /\ now \in 0..(Day - 1)
  BY <1>4, <1>6, <1>7
<1>9. clock <= Reading(now) /\ Reading(now) < clock + u
  BY <1>3, <1>7, <1>8, ReadingOrder
<1>10. Reading(now) \in 0..(Seconds - 1)
  BY <1>8, ReadingFacts
<1>11. Minute * q <= Reading(now) /\ Reading(now) < Minute * q + Minute
  <2>1. Minute * q \in Nat
    BY <1>1, <1>3, ProductGrows
  <2> QED BY <1>3, <1>9, <1>10, <2>1
<1>12. MinuteOf(Reading(now)) = q
  BY <1>3, <1>10, <1>11, MinuteIs
<1> QED BY <1>2, <1>12

\* A timer that has run out finds the next minute begun.
LEMMA NotSooner ==
  ASSUME Inv, TimePasses, due > 0, due' = 0, ~stepped, slack + Second <= Day - Second * Minute
  PROVE  shown # MinuteOf(Reading(now'))
<1> DEFINE u == UntilNextMinute(clock)
<1> DEFINE q == MinuteOf(clock)
<1> DEFINE y == Reading(now')
<1>1. Second \in Nat \ {0} /\ Minute \in Nat \ {0}
  BY TimeAssumption
<1>2. /\ clock \in 0..(Seconds - 1) /\ slack \in Nat /\ due \in Nat /\ shown = q
      /\ \E cut \in 0..(Second - 1) : now = Ran(cut) % Day
  BY WhereTheClockIs
<1>3. /\ u \in 1..Minute /\ q \in Nat /\ clock + u = Minute * q + Minute
      /\ clock + u <= Seconds /\ clock \in Nat /\ Seconds \in Nat
  <2>1. Seconds \in Nat /\ Minutes \in Nat
    BY DayFacts, TimeAssumption
  <2>2. q \in 0..(Minutes - 1) /\ u \in 1..Minute /\ clock + u = Minute * q + Minute /\ clock + u <= Seconds
    BY <1>2, MinuteFacts
  <2> QED BY <1>2, <2>1, <2>2
<1>4. PICK cut \in 0..(Second - 1) : now = Ran(cut) % Day
  BY <1>2
<1>5. due = 1 /\ now' = (now + 1) % Day
  BY <1>2 DEF TimePasses
<1>6. Ran(cut) = Second * clock + cut + slack + (Second * u - 1)
  BY <1>5 DEF Ran
<1> HIDE DEF u, q
<1>7. /\ Second * clock \in Nat /\ Second * u \in Nat /\ Second * u >= Second
      /\ Second * (clock + u) = Second * clock + Second * u /\ Second * (clock + u) \in Nat
      /\ Second * (clock + u) <= Day /\ Day \in Nat \ {0} /\ Second * Minute \in Nat
  <2>1. /\ Second * clock \in Nat /\ Second * u \in Nat /\ Second * 1 <= Second * u
        /\ Second * (clock + u) \in Nat /\ Second * (clock + u) <= Second * Seconds
        /\ Second * Minute \in Nat
    BY <1>1, <1>3, ProductGrows
  <2>2. Day = Second * Seconds /\ Second * (clock + u) = Second * clock + Second * u
    BY <1>1, <1>3 DEF Day, Seconds
  <2> QED BY <1>1, <2>1, <2>2
<1> DEFINE e == Second * (clock + u)
<1> DEFINE x == e + (cut + slack)
<1>8. Ran(cut) \in Nat /\ Ran(cut) + 1 = x /\ e \in Nat
  BY <1>1, <1>2, <1>6, <1>7
<1>9. now' = x % Day /\ x \in Nat
  BY <1>4, <1>5, <1>7, <1>8, NextTick
<1>10. e = Second * (Minute * q) + Second * Minute /\ Second * (Minute * q) \in Nat
  <2>1. Minute * q \in Nat
    BY <1>1, <1>3, ProductGrows
  <2>2. Second * (Minute * q + Minute) = Second * (Minute * q) + Second * Minute
    BY <1>1, <2>1
  <2> QED BY <1>1, <1>3, <2>1, <2>2, ProductGrows
<1> HIDE DEF e
<1>11. CASE x < Day
  <2>1. now' = x /\ now' \in 0..(Day - 1) /\ Second * (clock + u) <= now'
    BY <1>1, <1>2, <1>7, <1>8, <1>9, <1>11 DEF e
  <2>2. clock + u <= y /\ y \in 0..(Seconds - 1)
    BY <1>3, <2>1, ReadingOrder, ReadingFacts
  <2> HIDE DEF y
  <2>3. y = Minute * MinuteOf(y) + (y % Minute) /\ y % Minute \in 0..(Minute - 1) /\ MinuteOf(y) \in Nat
    BY <2>2, MinuteFacts, TimeAssumption
  <2>4. Minute * MinuteOf(y) # Minute * q
    BY <1>1, <1>3, <2>2, <2>3, ProductGrows
  <2>5. MinuteOf(y) # q
    BY <2>4
  <2> QED BY <1>2, <2>5 DEF y
<1>12. CASE Day <= x
  <2>1. x - Day \in 0..(Day - 1) /\ x - Day < Second * (Minute * q)
    BY <1>1, <1>2, <1>7, <1>8, <1>10, <1>12 DEF e
  <2>2. now' = x - Day
    BY <1>7, <1>9, <2>1, WholeTurn
  <2>3. now' \in 0..(Day - 1) /\ now' < Second * (Minute * q) /\ Minute * q \in Nat
    BY <1>1, <1>3, <2>1, <2>2, ProductGrows
  <2>4. y < Minute * q /\ y \in 0..(Seconds - 1)
    BY <2>3, ReadingOrder, ReadingFacts
  <2> HIDE DEF y
  <2>5. y = Minute * MinuteOf(y) + (y % Minute) /\ y % Minute \in 0..(Minute - 1) /\ MinuteOf(y) \in Nat
    BY <2>4, MinuteFacts, TimeAssumption
  <2>6. Minute * MinuteOf(y) # Minute * q
    BY <1>1, <1>3, <2>4, <2>5, ProductGrows
  <2>7. MinuteOf(y) # q
    BY <2>6
  <2> QED BY <1>2, <2>7 DEF y
<1>13. x \in Nat /\ Day \in Nat
  BY <1>7, <1>9
<1> QED BY <1>11, <1>12, <1>13

\* Nobody but time lets the timer run out.
LEMMA OnlyTimeRuns ==
  ASSUME Inv, [Next]_vars, due > 0, due' = 0
  PROVE  TimePasses
<1>1. ASSUME NEW d, Arm(UntilNextMinute(clock), d) PROVE due' # 0
  <2>1. UntilNextMinute(clock) \in 1..Minute /\ Second \in Nat \ {0}
    BY InvParts, MinuteFacts, TimeAssumption DEF TimeOK
  <2>2. Second <= Second * UntilNextMinute(clock) /\ Second * UntilNextMinute(clock) \in Nat
    BY <2>1, WaitFacts
  <2> QED BY <1>1, <2>1, <2>2 DEF Arm
<1>2. ~Start
  BY <1>1 DEF Start
<1>3. ~TickClock
  <2>1. SUFFICES ASSUME TickClock PROVE FALSE
    OBVIOUS
  <2>2. due' >= Second
    BY <2>1, TickClockInv
  <2> QED BY <2>2, TimeAssumption
<1>4. due' # due
  OBVIOUS
<1> QED
  BY <1>2, <1>3, <1>4 DEF Next, vars, clockVars, EndPass, ClientRequest, DrawNow, CloseRequested,
     SlideKey, PressCard, NewCard, ClockIsSet, BeginIdleWatch, EndIdleWatch

\* Only the clock's timer draws for the clock.
LEMMA OthersDrawNoClock ==
  ASSUME Inv, [Next]_vars, ~TickClock
  PROVE  stats'.count["clock"] = stats.count["clock"]
<1>1. stats \in Stats
  BY DEF Inv, TypeOK, Stats
<1>2. \A cause \in Causes \ {"clock"} : Record(stats, cause).count["clock"] = stats.count["clock"]
  BY <1>1, RecordFacts DEF Causes
<1>3. CASE UNCHANGED stats
  BY <1>3
<1>4. CASE Start
  BY <1>2, <1>4 DEF Start, Causes
<1>5. CASE DrawNow
  BY <1>2, <1>5 DEF DrawNow, Draw, Causes
<1>6. CASE EndPass
  BY <1>2, <1>6 DEF EndPass, NoFrame, Draw, Causes, Inv, AskersInv
<1> QED
  BY <1>3, <1>4, <1>5, <1>6 DEF Next, vars, NoFrame, ClientRequest, CloseRequested, SlideKey,
     PressCard, NewCard, TimePasses, ClockIsSet, BeginIdleWatch, EndIdleWatch

\* For seconds, minutes and days of any length, whatever time passes between a
\* reading of the clock and the arming of its timer, and however early or late
\* that fires: the text is late by less than a second and that time, a timer
\* waited for to its end finds another minute, none is armed for less than a
\* second, and the clock draws only when the text changed (winit.rs:188, 307-314,
\* 443-455; clock.rs:11-17, 38-39).
THEOREM ClockIsAlwaysRight == Spec => ClockIsRight
<1>1. Inv => MinuteShownIsRight
  BY ShownIsRight
<1>2. Inv /\ [Next]_vars =>
        [/\ TickClock => due' >= Second
         /\ stats'.count["clock"] > stats.count["clock"] => shown' # shown]_vars
  <2> SUFFICES ASSUME Inv, [Next]_vars
               PROVE  /\ TickClock => due' >= Second
                      /\ stats'.count["clock"] > stats.count["clock"] => shown' # shown
    OBVIOUS
  <2>1. stats.count["clock"] \in Nat
    BY DEF Inv, TypeOK, Causes
  <2>2. CASE TickClock
    BY <2>1, <2>2, TickClockInv
  <2>3. CASE ~TickClock
    BY <2>1, <2>3, OthersDrawNoClock
  <2> QED BY <2>2, <2>3
<1>3. Inv /\ [Next]_vars =>
        [due > 0 /\ due' = 0 /\ ~stepped /\ slack + Second <= Day - Second * Minute
           => shown # MinuteOf(Reading(now'))]_vars
  BY OnlyTimeRuns, NotSooner
<1> QED
  BY <1>1, <1>2, <1>3, SpecInv, PTL DEF Spec, ClockIsRight, ClockDrawsOnceAMinute, NotAMomentSooner

\* Whoever asks for a frame first is the one it is drawn for: in no step of any
\* run does a later asker take the label over (winit.rs:113-115).
THEOREM LabelIsKept == Spec => FirstAskerKeepsLabel
<1>1. [Next]_vars => [pending # NoCause => pending' \in {pending, NoCause}]_vars
  BY DEF Next, vars, runVars, Start, EndPass, ClientRequest, DrawNow, CloseRequested, SlideKey,
     PressCard, NewCard, TickClock, TimePasses, ClockIsSet, BeginIdleWatch, EndIdleWatch,
     RequestRedraw
<1> QED BY <1>1, PTL DEF Spec, FirstAskerKeepsLabel

\* Whatever the number of cards, every change of the strip has a frame asked
\* for it in the same step, and a card that is new is the active one
\* (input.rs:228-266).
THEOREM CardsAlwaysDrawn == Spec => CardsAreDrawn
<1>1. Inv /\ [Next]_vars =>
        [strip' # strip =>
           /\ pending' # NoCause
           /\ Elements(strip'.tabs) # Elements(strip.tabs) => ActiveTab(strip') = strip.next_id]_vars
  <2>1. ASSUME [Next]_vars, strip' # strip
        PROVE  \/ \E forward \in BOOLEAN : SlideKey(forward)
               \/ \E id \in Elements(strip.tabs) : PressCard(id)
               \/ NewCard
    BY <2>1 DEF Next, vars, runVars, Start, EndPass, ClientRequest, DrawNow, CloseRequested,
       TickClock, TimePasses, ClockIsSet, BeginIdleWatch, EndIdleWatch
  <2> QED BY <2>1, CardsInv
<1> QED BY <1>1, SpecInv, PTL DEF Spec, CardsAreDrawn
=============================================================================
