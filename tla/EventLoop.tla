------------------------------ MODULE EventLoop ------------------------------
(***************************************************************************)
(* The loop of backend/winit.rs: who asks for a frame, who draws at once,  *)
(* what stats.rs counts, the clock of the top bar, the card strip, and the *)
(* two ways a test run ends by itself (--frames and --idle-test).          *)
(*                                                                         *)
(* A loop pass is any number of handlers and then EndPass, the callback    *)
(* given to calloop's EventLoop::run.  Handlers that touch windows are     *)
(* Compositor's; here they are only what they do to frames.  A frame may   *)
(* fail to draw: it is dropped and not counted.                            *)
(*                                                                         *)
(* Time goes in ticks, Second of them to a second, and a day has Minutes   *)
(* minutes of Minute seconds.  A reading of the clock is in whole seconds; *)
(* between it and the arming of the timer pass some ticks, from Delays;    *)
(* the timer fires up to Hair ticks early, or late.                        *)
(***************************************************************************)
EXTENDS TabOps

CONSTANTS NoCause, NoWatch,  \* Option::None for a Cause and an IdleWatch
          NoBudget,          \* a run without --frames
          Budgets,           \* the values --frames may have
          Minute, Minutes,   \* 60 and 1440 in the code
          Second,            \* ticks of a second
          Delays,            \* ticks from a reading of the clock to the arming of its timer
          Hair,              \* ticks the timer may fire early
          FirstTabs,         \* the cards placeholder_tabs starts with
          MaxTabs, MaxFrames \* bounds of the model: cards made, frames drawn

ASSUME TimeAssumption ==
  {Minute, Minutes, Second} \subseteq Nat \ {0} /\ Delays \subseteq Nat /\ Hair \in Nat
ASSUME BoundsAssumption == {FirstTabs, MaxTabs, MaxFrames} \subseteq Nat /\ Budgets \subseteq Nat
ASSUME NoneAssumption == NoBudget \notin Nat

Causes == {"initial", "resized", "redraw", "clock", "client", "input"}

ASSUME NoCauseAssumption == NoCause \notin Causes

VARIABLES
  phase,       \* "starting", "running" or "done"
  stop,        \* the flag of calloop's LoopSignal
  pending,     \* State.pending
  stats,       \* frames, and frames by cause
  exit_after,  \* --frames
  idle,        \* is this an --idle-test run
  watch,       \* State.idle_watch
  strip,       \* State.tabs
  now,         \* the wall clock, in ticks
  clock,       \* State.clock: the last reading, in seconds
  shown,       \* State.clock_text: the minute in the top bar
  due,         \* ticks until the clock's timer
  stepped,     \* history: the wall clock was set since it was read
  slack,       \* history: ticks from the last reading to the arming of the timer
  unasked      \* history: frames drawn since the watch began for nobody's sake

clockVars == <<now, clock, shown, due, stepped, slack>>
runVars == <<phase, exit_after, idle, watch>>
vars == <<runVars, stop, pending, stats, strip, clockVars, unasked>>

----------------------------------------------------------------------------
(* stats.rs and clock.rs                                                   *)

Record(s, cause) == [frames |-> s.frames + 1, count |-> [s.count EXCEPT ![cause] = @ + 1]]

Spent(s) == exit_after # NoBudget /\ s.frames >= exit_after

\* Variant: the second that is running is not waited for.
UntilNextMinute_Short(t) == Minute - 1 - (t % Minute)

\* Wall::until_next_minute: at the top of a minute a whole minute.
UntilNextMinute(t) == Minute - (t % Minute)

MinuteOf(t) == t \div Minute

Day == Second * (Minute * Minutes)

\* now_local: whole seconds, the rest of the second is cut off.
Reading(t) == t \div Second

\* The timer is armed from the last reading, d ticks after it.
Arm(seconds, d) ==
  now' = (now + d) % Day /\ due' = Second * seconds /\ slack' = d

----------------------------------------------------------------------------
(* Drawing and asking for a frame                                          *)

\* draw: a frame that succeeds is counted and may spend the budget.
Draw(cause, ok) ==
  /\ stats' = IF ok THEN Record(stats, cause) ELSE stats
  /\ stop' = (stop \/ (ok /\ Spent(stats')))
  /\ unasked' = IF ok /\ watch # NoWatch /\ cause \in {"initial", "resized", "redraw"}
                THEN unasked + 1 ELSE unasked

NoFrame == UNCHANGED <<stats, stop, unasked>>

\* Variant: whoever asks last gives the frame its label.
RequestRedraw_LastAsker(cause) == pending' = cause

RequestRedraw(cause) == pending' = IF pending = NoCause THEN cause ELSE pending

\* A handler runs inside the loop; the bound keeps the counters finite.
Handler == phase = "running" /\ stats.frames < MaxFrames

----------------------------------------------------------------------------
(* The handlers, as far as frames go                                       *)

\* Client requests only ask; see Compositor.
ClientRequest ==
  /\ Handler /\ RequestRedraw("client")
  /\ NoFrame /\ UNCHANGED <<runVars, strip, clockVars>>

\* focus_changed draws at once, and so do a resize and a host repaint.
DrawNow ==
  /\ Handler
  /\ \E cause \in {"input", "resized", "redraw"}, ok \in BOOLEAN : Draw(cause, ok)
  /\ UNCHANGED <<runVars, pending, strip, clockVars>>

CloseRequested ==
  /\ phase = "running" /\ stop' = TRUE
  /\ UNCHANGED <<runVars, pending, stats, strip, clockVars, unasked>>

\* Variant: the frame is forgotten.
SlideKey_NoRedraw(forward) ==
  /\ Handler /\ CanSlide(strip, forward)
  /\ strip' = Slide(strip, forward)
  /\ NoFrame /\ UNCHANGED <<runVars, pending, clockVars>>

\* slide: at an end nothing moves, and nothing is drawn for it.
SlideKey(forward) ==
  /\ Handler /\ CanSlide(strip, forward)
  /\ strip' = Slide(strip, forward) /\ RequestRedraw("input")
  /\ NoFrame /\ UNCHANGED <<runVars, clockVars>>

PressCard(id) ==
  /\ Handler /\ strip' = SetActive(strip, id) /\ RequestRedraw("input")
  /\ NoFrame /\ UNCHANGED <<runVars, clockVars>>

\* new_card: the new card takes focus.
NewCard ==
  /\ Handler /\ strip.next_id < MaxTabs
  /\ strip' = SetActive(Add(strip), strip.next_id) /\ RequestRedraw("input")
  /\ NoFrame /\ UNCHANGED <<runVars, clockVars>>

----------------------------------------------------------------------------
(* Timers                                                                  *)

\* tick_clock: the clock is read again, and drawn if the minute turned.
ReadAgain ==
  /\ clock' = Reading(now) /\ stepped' = FALSE
  /\ IF MinuteOf(clock') = MinuteOf(clock)
     THEN NoFrame /\ UNCHANGED shown
     ELSE shown' = MinuteOf(clock') /\ \E ok \in BOOLEAN : Draw("clock", ok)

\* Variant: the timer is armed from the reading before.
TickClock_StaleRearm ==
  /\ Handler /\ due <= Hair
  /\ ReadAgain
  /\ \E d \in Delays : Arm(UntilNextMinute(clock), d)
  /\ UNCHANGED <<runVars, pending, strip>>

\* The clock's timer, at its time or a hair before it: calloop counts the next
\* wait from the end of the callback, which may have drawn.
TickClock ==
  /\ Handler /\ due <= Hair
  /\ ReadAgain
  /\ \E d \in Delays : Arm(UntilNextMinute(clock'), d)
  /\ UNCHANGED <<runVars, pending, strip>>

\* A tick goes by; a timer that is due may still be waiting for its turn.
TimePasses ==
  /\ phase = "running" /\ now' = (now + 1) % Day
  /\ due' = IF due = 0 THEN 0 ELSE due - 1
  /\ UNCHANGED <<runVars, stop, pending, stats, strip, clock, shown, stepped, slack, unasked>>

\* Somebody sets the clock, or the time zone's offset changes.
ClockIsSet ==
  /\ phase = "running" /\ now' \in 0..(Day - 1) /\ now' # now
  /\ stepped' = TRUE
  /\ UNCHANGED <<runVars, stop, pending, stats, strip, clock, shown, due, slack, unasked>>

\* Variant: frames of the user's are not set apart.
BeginIdleWatch_ForgetsInput ==
  /\ phase = "running" /\ idle /\ watch = NoWatch
  /\ watch' = [frames |-> stats.frames,
               count |-> [c \in {"clock", "client", "input"} |->
                            IF c = "input" THEN 0 ELSE stats.count[c]]]
  /\ UNCHANGED <<phase, exit_after, idle, stop, pending, stats, strip, clockVars, unasked>>

\* begin_idle_watch, a second after the start.
BeginIdleWatch ==
  /\ phase = "running" /\ idle /\ watch = NoWatch
  /\ watch' = [frames |-> stats.frames,
               count |-> [c \in {"clock", "client", "input"} |-> stats.count[c]]]
  /\ UNCHANGED <<phase, exit_after, idle, stop, pending, stats, strip, clockVars, unasked>>

EndIdleWatch ==
  /\ phase = "running" /\ watch # NoWatch /\ stop' = TRUE
  /\ UNCHANGED <<runVars, pending, stats, strip, clockVars, unasked>>

----------------------------------------------------------------------------
(* The loop                                                                *)

\* Variant: the budget of the first frame is not looked at.
Start_RunsAnyway ==
  /\ phase = "starting"
  /\ \E ok \in BOOLEAN : stats' = IF ok THEN Record(stats, "initial") ELSE stats
  /\ phase' = "running" /\ stop' = FALSE
  /\ \E d \in Delays : Arm(UntilNextMinute(clock), d)
  /\ UNCHANGED <<exit_after, idle, watch, pending, strip, clock, shown, stepped, unasked>>

\* The timer is armed, long after the clock was read, and the first frame is
\* drawn.  EventLoop::run clears the stop flag on entry, so a budget that frame
\* spent is looked at here.
Start ==
  /\ phase = "starting"
  /\ \E d \in Delays : Arm(UntilNextMinute(clock), d)
  /\ \E ok \in BOOLEAN : stats' = IF ok THEN Record(stats, "initial") ELSE stats
  /\ phase' = IF Spent(stats') THEN "done" ELSE "running"
  /\ stop' = FALSE
  /\ UNCHANGED <<exit_after, idle, watch, pending, strip, clock, shown, stepped, unasked>>

\* Variant: the frame that spends the budget does not end the loop.
EndPass_Continues ==
  /\ phase = "running" /\ (pending # NoCause \/ stop)
  /\ pending' = NoCause
  /\ IF pending = NoCause THEN NoFrame ELSE \E ok \in BOOLEAN : Draw(pending, ok)
  /\ phase' = IF stop /\ pending = NoCause THEN "done" ELSE "running"
  /\ UNCHANGED <<exit_after, idle, watch, strip, clockVars>>

\* Variant: a frame that failed is asked for again.
EndPass_Retries ==
  /\ phase = "running" /\ (pending # NoCause \/ stop)
  /\ IF pending = NoCause THEN NoFrame /\ UNCHANGED pending
     ELSE \E ok \in BOOLEAN :
            Draw(pending, ok) /\ pending' = IF ok THEN NoCause ELSE pending
  /\ phase' = IF stop' THEN "done" ELSE "running"
  /\ UNCHANGED <<exit_after, idle, watch, strip, clockVars>>

\* The callback: a pending frame is drawn, once; then run looks at the flag.
EndPass ==
  /\ phase = "running" /\ (pending # NoCause \/ stop)
  /\ pending' = NoCause
  /\ IF pending = NoCause THEN NoFrame ELSE \E ok \in BOOLEAN : Draw(pending, ok)
  /\ phase' = IF stop' THEN "done" ELSE "running"
  /\ UNCHANGED <<exit_after, idle, watch, strip, clockVars>>

\* The clock is read before the renderer, the fonts and the socket are set up;
\* its timer is not armed yet.
Init ==
  /\ phase = "starting" /\ stop = FALSE /\ pending = NoCause
  /\ stats = [frames |-> 0, count |-> [c \in Causes |-> 0]]
  /\ exit_after \in Budgets \cup {NoBudget} /\ idle \in BOOLEAN
  /\ exit_after # NoBudget => ~idle
  /\ watch = NoWatch
  /\ strip = [EmptyStrip EXCEPT !.tabs = [i \in 1..FirstTabs |-> i - 1], !.next_id = FirstTabs]
  /\ now \in 0..(Day - 1)
  /\ clock = Reading(now) /\ shown = MinuteOf(clock) /\ due = 0
  /\ stepped = FALSE /\ slack = 0 /\ unasked = 0

Next ==
  \/ Start \/ EndPass
  \/ ClientRequest \/ DrawNow \/ CloseRequested
  \/ \E forward \in BOOLEAN : SlideKey(forward)
  \/ \E id \in Elements(strip.tabs) : PressCard(id)
  \/ NewCard
  \/ TickClock \/ TimePasses \/ ClockIsSet
  \/ BeginIdleWatch \/ EndIdleWatch

\* calloop runs the callback after every dispatch, so a pass always ends.
Fairness == WF_vars(EndPass)

Spec == Init /\ [][Next]_vars /\ Fairness

----------------------------------------------------------------------------
(* Type and safety                                                         *)

\* Counters, causes and readings are in range; the run has one way to end.
TypeOK ==
  /\ phase \in {"starting", "running", "done"} /\ stop \in BOOLEAN
  /\ pending \in Causes \cup {NoCause}
  /\ stats \in [frames : Nat, count : [Causes -> Nat]]
  /\ exit_after \in Budgets \cup {NoBudget} /\ idle \in BOOLEAN
  /\ watch = NoWatch \/ watch \in [frames : Nat, count : [{"clock", "client", "input"} -> Nat]]
  /\ strip \in Strips
  /\ now \in 0..(Day - 1) /\ clock \in 0..(Minute * Minutes - 1) /\ shown \in 0..(Minutes - 1)
  /\ due \in 0..(Second * Minute) /\ stepped \in BOOLEAN /\ slack \in Delays \cup {0}
  /\ unasked \in Nat

\* The subtractions of the idle verdict, on u64.
Drawn == stats.frames - watch.frames
From(c) == stats.count[c] - watch.count[c]
Unexplained == Drawn - From("clock") - From("client") - From("input")

\* The idle test's verdict (winit.rs:400-404) is the number of frames nobody
\* asked for since the watch began, and none of its subtractions goes below
\* zero, whatever was pending or failed to draw when the watch began.
IdleVerdictIsRight ==
  watch # NoWatch =>
    /\ \A c \in {"clock", "client", "input"} : From(c) >= 0
    /\ Unexplained = unasked

\* The counters through every step, and the verdict that is drawn from them.
FramesAreCounted == TypeOK /\ IdleVerdictIsRight

\* While the loop runs with its frame budget spent, the loop has been told to
\* stop: no pass begins after --frames n (winit.rs:353-355, 613-616).
BudgetEndsTheLoop == phase = "running" /\ Spent(stats) => stop

\* The bar shows the minute it is until the timer is nearly due: the text is
\* late by less than the second a reading cuts off (clock.rs:15-17) and the time
\* from that reading to the arming of the timer (winit.rs:188, 311-314), unless
\* the clock was set meanwhile.
MinuteShownIsRight ==
  ~stepped /\ due >= Second + slack => shown = MinuteOf(Reading(now))

\* "Sleep exactly until the display is wrong, and not a moment sooner"
\* (clock.rs:11-14), the second half: a timer that is waited for to its end
\* finds another minute on the wall clock, however late it was armed, short of
\* a whole day.
NotAMomentSooner ==
  [][due > 0 /\ due' = 0 /\ ~stepped /\ slack + Second <= Day - Second * Minute
       => shown # MinuteOf(Reading(now'))]_vars

\* "A timer armed for zero fires immediately and spins" (clock.rs:38-39), and
\* "a timer can fire a hair early, and redrawing the identical string would be a
\* frame drawn for no reason" (winit.rs:443-445): a timer that fired, early or
\* late, sleeps a second at least, and the clock draws only a text that changed.
ClockDrawsOnceAMinute ==
  [][/\ TickClock => due' >= Second
     /\ stats'.count["clock"] > stats.count["clock"] => shown' # shown]_vars

\* The clock of the top bar: hardly late, never woken for nothing and drawn
\* once a minute.
ClockIsRight == []MinuteShownIsRight /\ NotAMomentSooner /\ ClockDrawsOnceAMinute

\* "The first asker of a pass keeps the label" (winit.rs:113-115): the cause of
\* a pending frame changes only by the frame being drawn.
FirstAskerKeepsLabel ==
  [][pending # NoCause => pending' \in {pending, NoCause}]_vars

\* The card strip never changes on its own: a change is followed by a frame,
\* and a card that appears is the active one (input.rs:228-266).
CardsAreDrawn ==
  [][strip' # strip =>
       /\ pending' # NoCause
       /\ Elements(strip'.tabs) # Elements(strip.tabs) => ActiveTab(strip') = strip.next_id]_vars

\* A frame that was asked for is attempted (winit.rs:356-362).
PendingIsTaken == pending # NoCause ~> pending = NoCause

\* Once told to stop, by the user, the budget or the idle test, the loop ends.
StopEndsTheLoop == (stop /\ phase = "running") ~> phase = "done"

\* What was asked of the loop, by whomever: a frame under the first asker's
\* label, also for every change of cards, and an end.
RequestsAreServed ==
  FirstAskerKeepsLabel /\ CardsAreDrawn /\ PendingIsTaken /\ StopEndsTheLoop

----------------------------------------------------------------------------
(* What the comments say and the loop does not keep                        *)

\* "It sleeps until the displayed minute is actually wrong" (winit.rs:308-309):
\* while the timer sleeps, the text is right.
MinuteIsNeverLate ==
  phase = "running" /\ due > 0 /\ ~stepped => shown = MinuteOf(Reading(now))
=============================================================================
