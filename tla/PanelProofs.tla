----------------------------- MODULE PanelProofs -----------------------------
(***************************************************************************)
(* The parts of a front panel keep their promises for every debounce time, *)
(* period of the clock and number of poles.  The event queue, which is a   *)
(* component without a clock, comes first; then the parts that share the   *)
(* clock, each with an invariant of its own.                               *)
(***************************************************************************)
EXTENDS Panel, Sequences, Integers, TLAPS

-----------------------------------------------------------------------------
(***************************************************************************)
(* EventQueue implements BoundedFifo, for every capacity.                  *)
(***************************************************************************)

(***************************************************************************)
(* The indices of the ring stay inside storage_, and the counts inside     *)
(* their ranges.                                                           *)
(***************************************************************************)
THEOREM TypeCorrect == Spec => []TypeOK
<1>1. Init => TypeOK
  BY QueueAssumption DEF Init, TypeOK, Slot
<1>2. TypeOK /\ [Next]_vars => TypeOK'
  <2> SUFFICES ASSUME TypeOK, [Next]_vars PROVE TypeOK'
    OBVIOUS
  <2> USE QueueAssumption DEF TypeOK, Slot, Behind
  <2>1. ASSUME NEW e \in Event, push(e) PROVE TypeOK'
    BY <2>1 DEF push
  <2>2. CASE pushRefused
    BY <2>2 DEF pushRefused
  <2>3. CASE pop
    BY <2>3 DEF pop
  <2>4. CASE popNothing
    BY <2>4 DEF popNothing
  <2>5. CASE clear
    BY <2>5 DEF clear
  <2>6. CASE UNCHANGED vars
    BY <2>6 DEF vars
  <2> QED
    BY <2>1, <2>2, <2>3, <2>4, <2>5, <2>6 DEF Next
<1> QED
  BY <1>1, <1>2, PTL DEF Spec

(***************************************************************************)
(* What the refinement mapping is as a sequence.                           *)
(***************************************************************************)
QueuedIsSequence ==
    /\ Queued \in Seq(Event \cup {NoEvent})
    /\ Len(Queued) = size
    /\ \A k \in 1 .. size : Queued[k] = storage[Behind(k - 1)]

(***************************************************************************)
(* The refinement mapping yields a sequence of size_ events, the k-th of   *)
(* which is in the slot k - 1 places behind the head.                      *)
(***************************************************************************)
LEMMA MappingIsSequence == TypeOK => QueuedIsSequence
<1> USE QueueAssumption DEF TypeOK, Slot, Behind, Queued
<1> SUFFICES ASSUME TypeOK PROVE QueuedIsSequence
  OBVIOUS
<1>1. ASSUME NEW k \in 1 .. size
      PROVE  storage[Behind(k - 1)] \in Event \cup {NoEvent}
  OBVIOUS
<1>2. Queued \in [1 .. size -> Event \cup {NoEvent}]
  BY <1>1
<1> QED
  BY <1>2 DEF QueuedIsSequence

(***************************************************************************)
(* Each step of the ring is a step of the queue it stands for.             *)
(***************************************************************************)
LEMMA StepRefines ==
    ASSUME TypeOK, TypeOK', [Next]_vars
    PROVE  [Fifo!Next]_(Fifo!vars)
<1> USE QueueAssumption
<1>0. QueuedIsSequence /\ QueuedIsSequence'
  BY MappingIsSequence, PTL
<1> USE <1>0 DEF QueuedIsSequence
<1>1. ASSUME NEW e \in Event, push(e) PROVE Fifo!Push(e)
  <2>1. size' = size + 1 /\ size < Capacity
    BY <1>1 DEF push, TypeOK
  <2>2. \A k \in 1 .. size : Queued'[k] = Queued[k]
    BY <1>1, <2>1 DEF push, TypeOK, Slot, Behind
  <2>3. Queued'[size + 1] = e
    BY <1>1, <2>1 DEF push, TypeOK, Slot, Behind
  <2>4. Queued' = Append(Queued, e)
    BY <2>1, <2>2, <2>3 DEF TypeOK
  <2> QED
    BY <1>1, <2>1, <2>4 DEF push, Fifo!Push
<1>2. CASE pushRefused
  BY <1>2 DEF pushRefused, Fifo!Refuse, Fifo!Next, TypeOK, Queued, Behind
<1>3. ASSUME pop PROVE Fifo!Pop
  <2>1. size' = size - 1 /\ size > 0
    BY <1>3 DEF pop, TypeOK
  <2>2. Queued # <<>> /\ Head(Queued) = storage[head]
    BY <2>1 DEF TypeOK, Slot, Behind
  <2>3. \A k \in 1 .. size' : Queued'[k] = Queued[k + 1]
    BY <1>3, <2>1 DEF pop, TypeOK, Slot, Behind
  <2>4. Queued' = Tail(Queued)
    BY <2>1, <2>2, <2>3 DEF TypeOK
  <2> QED
    BY <1>3, <2>2, <2>4 DEF pop, Fifo!Pop
<1>4. ASSUME popNothing PROVE Fifo!PopNothing
  <2>1. Queued = <<>>
    BY <1>4 DEF popNothing
  <2>2. Queued' = Queued
    BY <1>4 DEF popNothing, Queued, Behind
  <2> QED
    BY <1>4, <2>1, <2>2 DEF popNothing, Fifo!PopNothing
<1>5. ASSUME clear PROVE Fifo!Clear
  <2>1. Queued' = <<>>
    BY <1>5 DEF clear
  <2> QED
    BY <1>5, <2>1 DEF clear, Fifo!Clear
<1>6. ASSUME UNCHANGED vars PROVE UNCHANGED (Fifo!vars)
  BY <1>6 DEF vars, Fifo!vars, Queued, Behind
<1> QED
  BY <1>1, <1>2, <1>3, <1>4, <1>5, <1>6 DEF Next, Fifo!Next

(***************************************************************************)
(* The ring is a bounded first-in first-out queue (ImplementsFifo).        *)
(***************************************************************************)
THEOREM QueueIsFifo == Spec => ImplementsFifo
<1>1. Init => Fifo!Init
  <2> SUFFICES ASSUME Init PROVE Fifo!Init
    OBVIOUS
  <2>1. Queued = <<>>
    BY DEF Init, Queued
  <2> QED
    BY <2>1 DEF Init, Fifo!Init
<1>2. TypeOK /\ TypeOK' /\ [Next]_vars => [Fifo!Next]_(Fifo!vars)
  BY StepRefines
<1> QED
  BY <1>1, <1>2, TypeCorrect, PTL DEF Spec, ImplementsFifo, Fifo!Spec

-----------------------------------------------------------------------------
(***************************************************************************)
(* A step of the panel is a step of the component that the behaviour       *)
(* follows, which leaves the others as they were constructed.              *)
(***************************************************************************)
LEMMA ContactSteps ==
    ASSUME [PanelNext]_panelVars
    PROVE  /\ UNCHANGED component
           /\ \/ component = "momentary" /\ Momentary!Next
              \/ UNCHANGED momentary /\ (component = "momentary" => UNCHANGED now)
           /\ \/ component = "onOff" /\ Switches!OnOffNext
              \/ UNCHANGED onOff /\ (component = "onOff" => UNCHANGED now)
           /\ \/ component = "maintained" /\ Switches!SwitchNext
              \/ UNCHANGED maintained /\ (component = "maintained" => UNCHANGED now)
<1>1. CASE UNCHANGED panelVars
  BY <1>1 DEF panelVars, contactVars
<1>2. CASE PanelNext
  <2>1. CASE component = "queue"
    BY <1>2, <2>1 DEF PanelNext, ContactNext, DialNext, SignalNext, contactVars
  <2>2. CASE ContactNext
    BY <1>2, <2>2 DEF PanelNext, ContactNext
  <2>3. CASE DialNext
    BY <1>2, <2>3 DEF PanelNext, DialNext, contactVars
  <2>4. CASE SignalNext
    BY <1>2, <2>4 DEF PanelNext, SignalNext, contactVars
  <2> QED
    BY <1>2, <2>1, <2>2, <2>3, <2>4 DEF PanelNext
<1> QED
  BY <1>1, <1>2

-----------------------------------------------------------------------------
(***************************************************************************)
(* Time modulo TimeModulus: an age grows by each gap, and loses nothing as *)
(* long as it does not reach a whole period.                               *)
(***************************************************************************)
LEMMA Clock ==
    ASSUME NEW t \in Momentary!Time, NEW since \in Momentary!Time,
           NEW g \in 0 .. MaxGap
    PROVE  /\ Momentary!Later(t, g) \in Momentary!Time
           /\ Momentary!Elapsed(t, since) \in Momentary!Time
           /\ Momentary!Elapsed(t, t) = 0
           /\ Momentary!Elapsed(Momentary!Later(t, g), since)
                  = Momentary!Later(Momentary!Elapsed(t, since), g)
           /\ Momentary!Elapsed(t, since) + g < TimeModulus =>
                  Momentary!Elapsed(Momentary!Later(t, g), since)
                      = Momentary!Elapsed(t, since) + g
<1>1. /\ TimeModulus \in Nat \ {0} /\ MaxGap \in Nat
      /\ DebounceTime \in Nat /\ MaxGap + DebounceTime <= TimeModulus
  BY PanelAssumption DEF PanelAssumption, Momentary!ButtonAssumption
<1>2. /\ g \in Nat /\ g <= TimeModulus /\ t \in Nat /\ since \in Nat
      /\ t < TimeModulus /\ since < TimeModulus
  BY <1>1 DEF Momentary!Time
<1>3. ASSUME NEW a \in Nat, a < TimeModulus
      PROVE  Momentary!Later(a, g) = IF a + g < TimeModulus THEN a + g
                                     ELSE a + g - TimeModulus
  BY <1>1, <1>2, <1>3 DEF Momentary!Later
<1>4. Momentary!Later(t, g) = IF t + g < TimeModulus THEN t + g
                              ELSE t + g - TimeModulus
  BY <1>2, <1>3
<1>5. /\ Momentary!Elapsed(t, since) \in Nat
      /\ Momentary!Elapsed(t, since) < TimeModulus
  BY <1>1, <1>2 DEF Momentary!Elapsed
<1>6. Momentary!Later(Momentary!Elapsed(t, since), g) =
          IF Momentary!Elapsed(t, since) + g < TimeModulus
          THEN Momentary!Elapsed(t, since) + g
          ELSE Momentary!Elapsed(t, since) + g - TimeModulus
  BY <1>3, <1>5
<1> QED
  BY <1>1, <1>2, <1>4, <1>5, <1>6 DEF Momentary!Elapsed, Momentary!Time

(***************************************************************************)
(* What update() makes of a debouncer that was initialized: it accepts a   *)
(* level that differs from its own when the candidate, which a different   *)
(* sample restarts, is as old as the debounce time.                        *)
(***************************************************************************)
StartOf(b, l, t) == IF l # b.candidatePressed THEN t ELSE b.candidateSinceMs
Accepts(b, l, t) ==
    l # b.pressed /\ Momentary!Elapsed(t, StartOf(b, l, t)) >= DebounceTime

SampledAs(b, l, t, s) ==
    /\ s \in Momentary!Button /\ s.initialized
    /\ s.candidatePressed = l /\ s.candidateSinceMs = StartOf(b, l, t)
    /\ Accepts(b, l, t) => s.pressed = l
    /\ ~Accepts(b, l, t) => s.pressed = b.pressed
    /\ s.justPressed <=> Accepts(b, l, t) /\ l
    /\ s.justReleased <=> Accepts(b, l, t) /\ ~l
    /\ s.transitionCount = IF Accepts(b, l, t) THEN Momentary!Count(b)
                           ELSE b.transitionCount
    /\ s.pressedSinceMs = IF Accepts(b, l, t) /\ l THEN t ELSE b.pressedSinceMs
    /\ s.heldForMs = IF s.pressed THEN Momentary!Elapsed(t, s.pressedSinceMs) ELSE 0
    /\ s.justReleased =>
           s.lastPressDurationMs = Momentary!Elapsed(t, b.pressedSinceMs)

LEMMA SampledFields ==
    ASSUME NEW b \in Momentary!Button, b.initialized,
           NEW l \in BOOLEAN, NEW t \in Momentary!Time
    PROVE  SampledAs(b, l, t, Momentary!Sampled(b, l, t))
<1>1. TimeModulus \in Nat \ {0} /\ CountModulus \in Nat \ {0} /\ DebounceTime \in Nat
  BY PanelAssumption DEF PanelAssumption, Momentary!ButtonAssumption
<1>2. \A since \in Momentary!Time : Momentary!Elapsed(t, since) \in Momentary!Time
  BY <1>1 DEF Momentary!Elapsed, Momentary!Time
<1>3. Momentary!Count(b) \in 0 .. CountModulus - 1
  BY <1>1 DEF Momentary!Count, Momentary!Button
<1>4. 0 \in Momentary!Time
  BY <1>1 DEF Momentary!Time
<1> DEFINE c == Momentary!Candidate(b, l, t)
           a == Momentary!Accepted(c, t)
           s == Momentary!Sampled(b, l, t)
<1>5. /\ c \in Momentary!Button /\ c.initialized
      /\ c.candidatePressed = l /\ c.candidateSinceMs = StartOf(b, l, t)
      /\ c.pressed = b.pressed /\ ~c.justPressed /\ ~c.justReleased
      /\ c.transitionCount = b.transitionCount
      /\ c.pressedSinceMs = b.pressedSinceMs
  BY DEF Momentary!Candidate, Momentary!Button, StartOf
<1>6. Momentary!TransitionIsStable(c, t) <=> Accepts(b, l, t)
  BY <1>5 DEF Momentary!TransitionIsStable, Accepts, Momentary!Button
<1>7. Momentary!Count(c) = Momentary!Count(b)
  BY <1>5 DEF Momentary!Count
<1>8. /\ a \in Momentary!Button /\ a.initialized
      /\ a.candidatePressed = l /\ a.candidateSinceMs = StartOf(b, l, t)
      /\ a.pressed = l /\ (a.justPressed <=> l) /\ (a.justReleased <=> ~l)
      /\ a.transitionCount = Momentary!Count(b)
      /\ a.pressedSinceMs = IF l THEN t ELSE b.pressedSinceMs
      /\ ~l => a.lastPressDurationMs = Momentary!Elapsed(t, b.pressedSinceMs)
  BY <1>2, <1>3, <1>5, <1>7
  DEF Momentary!Accepted, Momentary!PressStart, Momentary!Button
<1>9. ASSUME NEW h \in Momentary!Button
      PROVE  /\ Momentary!Held(h, t) \in Momentary!Button
             /\ Momentary!Held(h, t).initialized = h.initialized
             /\ Momentary!Held(h, t).candidatePressed = h.candidatePressed
             /\ Momentary!Held(h, t).candidateSinceMs = h.candidateSinceMs
             /\ Momentary!Held(h, t).pressed = h.pressed
             /\ Momentary!Held(h, t).justPressed = h.justPressed
             /\ Momentary!Held(h, t).justReleased = h.justReleased
             /\ Momentary!Held(h, t).transitionCount = h.transitionCount
             /\ Momentary!Held(h, t).pressedSinceMs = h.pressedSinceMs
             /\ Momentary!Held(h, t).lastPressDurationMs = h.lastPressDurationMs
             /\ Momentary!Held(h, t).heldForMs =
                    IF h.pressed THEN Momentary!Elapsed(t, h.pressedSinceMs) ELSE 0
  BY <1>2, <1>4 DEF Momentary!Held, Momentary!Button
<1>10. s = Momentary!Held(IF Accepts(b, l, t) THEN a ELSE c, t)
  BY <1>6 DEF Momentary!Sampled
<1>11. CASE Accepts(b, l, t)
  <2>1. s = Momentary!Held(a, t)
    BY <1>10, <1>11
  <2>2. SampledAs(b, l, t, s)
    <3> HIDE DEF a, c, s
    <3> QED
      BY <1>8, <1>9, <1>11, <2>1 DEF SampledAs
  <2> QED
    BY <2>2
<1>12. CASE ~Accepts(b, l, t)
  <2>1. s = Momentary!Held(c, t)
    BY <1>10, <1>12
  <2>2. SampledAs(b, l, t, s)
    <3> HIDE DEF a, c, s
    <3> QED
      BY <1>5, <1>9, <1>12, <2>1 DEF SampledAs
  <2> QED
    BY <2>2
<1> QED
  BY <1>11, <1>12

-----------------------------------------------------------------------------
(***************************************************************************)
(* The momentary button.                                                   *)
(***************************************************************************)

(***************************************************************************)
(* While a level is awaited, the age of the candidate is the time for      *)
(* which the samples have shown it, and short of the debounce time; the    *)
(* age of the press is the sum of the gaps since.                          *)
(***************************************************************************)
ButtonInv ==
    /\ button \in Momentary!Button /\ level \in BOOLEAN
    /\ run \in 0 .. DebounceTime /\ held \in Momentary!Time
    /\ IF component = "momentary" THEN now \in Momentary!Time ELSE ~button.initialized
    /\ button.initialized =>
           /\ button.candidatePressed = level
           /\ button.pressed # level =>
                  run < DebounceTime /\ Momentary!Elapsed(now, button.candidateSinceMs) = run
           /\ Momentary!Elapsed(now, button.pressedSinceMs) = held
    /\ ButtonIsTrue

(***************************************************************************)
(* A debouncer as reset() leaves it.                                       *)
(***************************************************************************)
FreshAs(l, t, s) ==
    /\ s \in Momentary!Button /\ s.initialized
    /\ s.candidatePressed = l /\ s.pressed = l
    /\ s.candidateSinceMs = t /\ s.pressedSinceMs = t
    /\ ~s.justPressed /\ ~s.justReleased
    /\ s.heldForMs = 0 /\ s.transitionCount = 0

LEMMA FreshFields ==
    ASSUME NEW l \in BOOLEAN, NEW t \in Momentary!Time
    PROVE  FreshAs(l, t, Momentary!Fresh(l, t))
<1>1. TimeModulus \in Nat \ {0} /\ CountModulus \in Nat \ {0}
  BY PanelAssumption DEF PanelAssumption, Momentary!ButtonAssumption
<1>2. 0 \in Momentary!Time /\ 0 \in 0 .. CountModulus - 1
  BY <1>1 DEF Momentary!Time
<1> QED
  BY <1>2 DEF FreshAs, Momentary!Fresh, Momentary!Constructed, Momentary!Button

(***************************************************************************)
(* A reset, and the first sample, restart a button and its history.        *)
(***************************************************************************)
LEMMA ButtonRestarted ==
    ASSUME ButtonInv, component = "momentary", component' = component,
           NEW l \in BOOLEAN, now' \in Momentary!Time,
           button' = Momentary!Fresh(l, now'), Momentary!Restarted(l)
    PROVE  ButtonInv'
<1>1. DebounceTime \in Nat /\ TimeModulus \in Nat \ {0} /\ MaxGap \in Nat
  BY PanelAssumption DEF PanelAssumption, Momentary!ButtonAssumption
<1>2. /\ button' \in Momentary!Button /\ button'.initialized
      /\ button'.candidatePressed = l /\ button'.pressed = l
      /\ button'.pressedSinceMs = now' /\ button'.heldForMs = 0
      /\ ~button'.justPressed /\ ~button'.justReleased
  <2>1. FreshAs(l, now', button')
    BY FreshFields
  <2> QED
    BY <2>1 DEF FreshAs
<1>3. Momentary!Elapsed(now', now') = 0 /\ 0 \in Momentary!Time
  <2>1. 0 \in Momentary!Time /\ 0 \in 0 .. MaxGap
    BY <1>1 DEF Momentary!Time
  <2> QED
    BY <2>1, Clock
<1>4. level' = l /\ run' = 0 /\ held' = 0
  BY DEF Momentary!Restarted
<1> QED
  BY <1>1, <1>2, <1>3, <1>4
  DEF ButtonInv, ButtonIsTrue, Momentary!Debounced, Momentary!DurationsAreElapsed

(***************************************************************************)
(* A sample is accepted just when it has been repeated for long enough.    *)
(***************************************************************************)
LEMMA ButtonSampled ==
    ASSUME ButtonInv, component = "momentary", component' = component,
           NEW l \in BOOLEAN, NEW g \in 0 .. MaxGap,
           Momentary!update(l, g), button.initialized
    PROVE  ButtonInv'
<1>1. /\ DebounceTime \in Nat /\ TimeModulus \in Nat \ {0} /\ MaxGap \in Nat
      /\ MaxGap + DebounceTime <= TimeModulus /\ g \in Nat /\ g <= MaxGap
  BY PanelAssumption DEF PanelAssumption, Momentary!ButtonAssumption
<1>2. /\ button \in Momentary!Button /\ now \in Momentary!Time
      /\ run \in 0 .. DebounceTime /\ held \in Momentary!Time
      /\ level \in BOOLEAN /\ button.candidatePressed = level
      /\ button.pressed # level =>
             run < DebounceTime /\ Momentary!Elapsed(now, button.candidateSinceMs) = run
      /\ Momentary!Elapsed(now, button.pressedSinceMs) = held
  BY DEF ButtonInv
<1>3. /\ button.candidateSinceMs \in Momentary!Time
      /\ button.pressedSinceMs \in Momentary!Time /\ button.pressed \in BOOLEAN
  BY <1>2 DEF Momentary!Button
<1>4. /\ now' = Momentary!Later(now, g)
      /\ button' = Momentary!Sampled(button, l, now') /\ level' = l
      /\ run' = (IF l # level THEN 0 ELSE Momentary!UpTo(run + g))
      /\ held' = IF button'.justPressed THEN 0 ELSE Momentary!Later(held, g)
  BY DEF Momentary!update
<1>5. now' \in Momentary!Time /\ 0 \in Momentary!Time
      /\ Momentary!Elapsed(now', now') = 0 /\ Momentary!Later(held, g) \in Momentary!Time
  BY <1>1, <1>2, <1>4, Clock DEF Momentary!Time, Momentary!Elapsed, Momentary!Later
<1>6. /\ button' \in Momentary!Button /\ button'.initialized
      /\ button'.candidatePressed = l
      /\ button'.candidateSinceMs = StartOf(button, l, now')
      /\ Accepts(button, l, now') => button'.pressed = l
      /\ ~Accepts(button, l, now') => button'.pressed = button.pressed
      /\ button'.justPressed <=> Accepts(button, l, now') /\ l
      /\ button'.justReleased <=> Accepts(button, l, now') /\ ~l
      /\ button'.pressedSinceMs =
             IF Accepts(button, l, now') /\ l THEN now' ELSE button.pressedSinceMs
      /\ button'.heldForMs = IF button'.pressed
                             THEN Momentary!Elapsed(now', button'.pressedSinceMs) ELSE 0
      /\ button'.justReleased =>
             button'.lastPressDurationMs = Momentary!Elapsed(now', button.pressedSinceMs)
  <2>1. button \in Momentary!Button /\ button.initialized /\ now' \in Momentary!Time
    BY <1>2, <1>5
  <2>2. SampledAs(button, l, now', button')
    BY <2>1, <1>4, SampledFields
  <2> QED
    BY <2>2 DEF SampledAs
<1>7. Momentary!Elapsed(now', button.pressedSinceMs) = Momentary!Later(held, g)
  BY <1>2, <1>3, <1>4, Clock
<1>8. held' \in Momentary!Time /\ Momentary!Elapsed(now', button'.pressedSinceMs) = held'
  BY <1>4, <1>5, <1>6, <1>7
<1>9. Momentary!DurationsAreElapsed'
  BY <1>4, <1>6, <1>7, <1>8 DEF Momentary!DurationsAreElapsed
<1>10. CASE l # level
  <2>1. run' = 0 /\ StartOf(button, l, now') = now'
    BY <1>2, <1>4, <1>10 DEF StartOf
  <2>2. Accepts(button, l, now') <=> l # button.pressed /\ DebounceTime = 0
    BY <1>1, <1>5, <2>1 DEF Accepts
  <2>3. /\ Accepts(button, l, now') => run' = DebounceTime
        /\ ~Accepts(button, l, now') /\ button.pressed # l => run' < DebounceTime
    BY <1>1, <2>1, <2>2
  <2> QED
    BY <1>1, <1>4, <1>5, <1>6, <1>8, <1>9, <2>1, <2>3
    DEF ButtonInv, ButtonIsTrue, Momentary!Debounced
<1>11. CASE l = level /\ button.pressed # level
  <2>1. StartOf(button, l, now') = button.candidateSinceMs
    BY <1>2, <1>11 DEF StartOf
  <2>2. Momentary!Elapsed(now', button.candidateSinceMs) = run + g
    BY <1>1, <1>2, <1>3, <1>4, <1>11, Clock
  <2>3. run' \in 0 .. DebounceTime
        /\ run' = IF run + g >= DebounceTime THEN DebounceTime ELSE run + g
    BY <1>1, <1>2, <1>4, <1>11 DEF Momentary!UpTo
  <2>4. Accepts(button, l, now') <=> run + g >= DebounceTime
    BY <1>11, <2>1, <2>2 DEF Accepts
  <2> QED
    BY <1>1, <1>2, <1>4, <1>5, <1>6, <1>8, <1>9, <2>1, <2>2, <2>3, <2>4
    DEF ButtonInv, ButtonIsTrue, Momentary!Debounced
<1>12. CASE l = level /\ button.pressed = level
  <2>1. ~Accepts(button, l, now')
    BY <1>12 DEF Accepts
  <2>2. run' \in 0 .. DebounceTime
    BY <1>1, <1>2, <1>4, <1>12 DEF Momentary!UpTo
  <2> QED
    BY <1>4, <1>5, <1>6, <1>8, <1>9, <1>12, <2>1, <2>2
    DEF ButtonInv, ButtonIsTrue, Momentary!Debounced
<1> QED
  BY <1>10, <1>11, <1>12

(***************************************************************************)
(* A button accepts a change after the debounce time and not before it,    *)
(* and measures durations that have passed, whatever the calls' distances  *)
(* and wherever the clock wraps around.                                    *)
(***************************************************************************)
THEOREM ButtonNeverBounces == PanelSpec => []ButtonIsTrue
<1>1. PanelInit => ButtonInv
  <2> SUFFICES ASSUME PanelInit PROVE ButtonInv
    OBVIOUS
  <2>1. /\ TimeModulus \in Nat \ {0} /\ CountModulus \in Nat \ {0}
        /\ DebounceTime \in Nat
    BY PanelAssumption DEF PanelAssumption, Momentary!ButtonAssumption
  <2>2. 0 \in Momentary!Time /\ 0 \in 0 .. CountModulus - 1 /\ 0 \in 0 .. DebounceTime
    BY <2>1 DEF Momentary!Time
  <2>3. /\ button = Momentary!Constructed /\ now \in Momentary!Time
        /\ level = FALSE /\ run = 0 /\ held = 0
    BY DEF PanelInit, Momentary!Init
  <2>4. button \in Momentary!Button /\ ~button.initialized
    BY <2>2, <2>3 DEF Momentary!Constructed, Momentary!Button
  <2> QED
    BY <2>2, <2>3, <2>4
    DEF ButtonInv, ButtonIsTrue, Momentary!Debounced, Momentary!DurationsAreElapsed
<1>2. ButtonInv /\ [PanelNext]_panelVars => ButtonInv'
  <2> SUFFICES ASSUME ButtonInv, [PanelNext]_panelVars PROVE ButtonInv'
    OBVIOUS
  <2>1. CASE component = "momentary" /\ Momentary!Next
    <3>1. component' = component
      BY ContactSteps
    <3>2. PICK l \in BOOLEAN, g \in 0 .. MaxGap :
              Momentary!reset(l, g) \/ Momentary!update(l, g)
      BY <2>1 DEF Momentary!Next
    <3>3. now \in Momentary!Time
      BY <2>1 DEF ButtonInv
    <3>4. Momentary!Later(now, g) \in Momentary!Time
      BY <3>3, Clock
    <3>5. CASE Momentary!reset(l, g)
      BY <2>1, <3>1, <3>4, <3>5, ButtonRestarted DEF Momentary!reset
    <3>6. CASE Momentary!update(l, g) /\ ~button.initialized
      <4>1. /\ now' \in Momentary!Time /\ Momentary!Restarted(l)
            /\ button' = Momentary!Fresh(l, now')
        BY <3>4, <3>6 DEF Momentary!update, Momentary!Sampled
      <4> QED
        BY <2>1, <3>1, <4>1, ButtonRestarted
    <3>7. CASE Momentary!update(l, g) /\ button.initialized
      BY <2>1, <3>1, <3>7, ButtonSampled
    <3> QED
      BY <3>2, <3>5, <3>6, <3>7
  <2>2. CASE UNCHANGED momentary /\ (component = "momentary" => UNCHANGED now)
    BY <2>2, ContactSteps
    DEF momentary, ButtonInv, ButtonIsTrue, Momentary!Debounced, Momentary!DurationsAreElapsed
  <2> QED
    BY <2>1, <2>2, ContactSteps
<1>3. ButtonInv => ButtonIsTrue
  BY DEF ButtonInv
<1> QED
  BY <1>1, <1>2, <1>3, PTL DEF PanelSpec

-----------------------------------------------------------------------------
(***************************************************************************)
(* The contacts of the other switches.                                     *)
(***************************************************************************)

(***************************************************************************)
(* The switches are built from the same debouncer.                         *)
(***************************************************************************)
LEMMA SameDebouncer ==
    /\ Switches!Time = Momentary!Time /\ Switches!Button = Momentary!Button
    /\ Switches!Constructed = Momentary!Constructed
    /\ \A t, g : Switches!Later(t, g) = Momentary!Later(t, g)
    /\ \A l, t : Switches!Fresh(l, t) = Momentary!Fresh(l, t)
    /\ \A b, l, t : Switches!Sampled(b, l, t) = Momentary!Sampled(b, l, t)
<1>1. /\ Switches!Time = Momentary!Time
      /\ Switches!Constructed = Momentary!Constructed
      /\ \A t, s : Switches!Elapsed(t, s) = Momentary!Elapsed(t, s)
      /\ \A t, g : Switches!Later(t, g) = Momentary!Later(t, g)
  BY DEF Switches!Time, Momentary!Time, Switches!Constructed, Momentary!Constructed,
         Switches!Elapsed, Momentary!Elapsed, Switches!Later, Momentary!Later
<1>2. Switches!Button = Momentary!Button
  BY <1>1 DEF Switches!Button, Momentary!Button
<1>3. ASSUME NEW l, NEW t PROVE Switches!Fresh(l, t) = Momentary!Fresh(l, t)
  BY <1>1 DEF Switches!Fresh, Momentary!Fresh
<1>4. ASSUME NEW b, NEW l, NEW t
      PROVE  Switches!Sampled(b, l, t) = Momentary!Sampled(b, l, t)
  <2>1. Switches!Candidate(b, l, t) = Momentary!Candidate(b, l, t)
    BY DEF Switches!Candidate, Momentary!Candidate
  <2>2. ASSUME NEW c
        PROVE  /\ Switches!TransitionIsStable(c, t) <=> Momentary!TransitionIsStable(c, t)
               /\ Switches!Accepted(c, t) = Momentary!Accepted(c, t)
               /\ Switches!Held(c, t) = Momentary!Held(c, t)
    BY <1>1
    DEF Switches!TransitionIsStable, Momentary!TransitionIsStable,
        Switches!Accepted, Momentary!Accepted, Switches!Count, Momentary!Count,
        Switches!PressStart, Momentary!PressStart, Switches!Held, Momentary!Held
  <2> QED
    BY <1>3, <2>1, <2>2 DEF Switches!Sampled, Momentary!Sampled
<1> QED
  BY <1>1, <1>2, <1>3, <1>4

(***************************************************************************)
(* What a sample does to a contact, apart from its durations.              *)
(***************************************************************************)
Sample(b, l, t, s) ==
    /\ s \in Momentary!Button /\ s.initialized /\ s.candidatePressed = l
    /\ b.initialized =>
           /\ s.candidateSinceMs = StartOf(b, l, t)
           /\ Accepts(b, l, t) => s.pressed = l
           /\ ~Accepts(b, l, t) => s.pressed = b.pressed
           /\ s.justPressed <=> Accepts(b, l, t) /\ l
           /\ s.justReleased <=> Accepts(b, l, t) /\ ~l
    /\ ~b.initialized =>
           /\ s.pressed = l /\ s.candidateSinceMs = t
           /\ ~s.justPressed /\ ~s.justReleased

LEMMA ContactSampled ==
    ASSUME NEW b \in Momentary!Button, NEW l \in BOOLEAN, NEW t \in Momentary!Time
    PROVE  /\ Sample(b, l, t, Switches!WithoutDurations(Switches!Sampled(b, l, t)))
           /\ Sample(b, l, t, Switches!Timeless(Switches!Sampled(b, l, t)))
           /\ Switches!Timeless(Switches!Sampled(b, l, t)).transitionCount =
                  IF b.initialized /\ Accepts(b, l, t) THEN Momentary!Count(b)
                  ELSE IF b.initialized THEN b.transitionCount ELSE 0
<1> DEFINE s == Momentary!Sampled(b, l, t)
           w == Switches!WithoutDurations(s)
           k == Switches!Timeless(s)
<1>1. 0 \in Momentary!Time /\ 0 \in 0 .. CountModulus - 1
  BY PanelAssumption DEF PanelAssumption, Momentary!ButtonAssumption, Momentary!Time
<1>2. Sample(b, l, t, s) /\ s.transitionCount =
          IF b.initialized /\ Accepts(b, l, t) THEN Momentary!Count(b)
          ELSE IF b.initialized THEN b.transitionCount ELSE 0
  <2>1. CASE b.initialized
    <3>1. SampledAs(b, l, t, s)
      BY <2>1, SampledFields
    <3> HIDE DEF s
    <3> QED
      BY <2>1, <3>1 DEF Sample, SampledAs
  <2>2. CASE ~b.initialized
    <3>1. FreshAs(l, t, s)
      BY <2>2, FreshFields DEF Momentary!Sampled
    <3> HIDE DEF s
    <3> QED
      BY <2>2, <3>1 DEF Sample, FreshAs
  <2> QED
    BY <2>1, <2>2
<1>3. Switches!Sampled(b, l, t) = s
  BY SameDebouncer
<1> HIDE DEF s
<1>4. s \in Momentary!Button
  BY <1>2 DEF Sample
<1>5. /\ w \in Momentary!Button /\ w.initialized = s.initialized
      /\ w.candidatePressed = s.candidatePressed
      /\ w.candidateSinceMs = s.candidateSinceMs /\ w.pressed = s.pressed
      /\ w.justPressed = s.justPressed /\ w.justReleased = s.justReleased
  BY <1>1, <1>4 DEF Switches!WithoutDurations, Momentary!Button
<1>6. /\ k \in Momentary!Button /\ k.initialized = s.initialized
      /\ k.candidatePressed = s.candidatePressed
      /\ k.candidateSinceMs = s.candidateSinceMs /\ k.pressed = s.pressed
      /\ k.justPressed = s.justPressed /\ k.justReleased = s.justReleased
      /\ k.transitionCount = s.transitionCount
  BY <1>1, <1>4 DEF Switches!Timeless, Momentary!Button
<1>7. Sample(b, l, t, w)
  <2> HIDE DEF w
  <2> QED
    BY <1>2, <1>5 DEF Sample
<1>8. Sample(b, l, t, k) /\ k.transitionCount = s.transitionCount
  <2> HIDE DEF k
  <2> QED
    BY <1>2, <1>6 DEF Sample
<1> QED
  BY <1>2, <1>3, <1>7, <1>8

(***************************************************************************)
(* A contact awaits a change for less than the debounce time, and for at   *)
(* least as long as all the contacts have been steady.                     *)
(***************************************************************************)
Awaits(b, l, t, quiet) ==
    b.initialized =>
        /\ b.candidatePressed = l
        /\ b.pressed # l =>
               /\ Momentary!Elapsed(t, b.candidateSinceMs) < DebounceTime
               /\ quiet <= Momentary!Elapsed(t, b.candidateSinceMs)

(***************************************************************************)
(* The time for which the contacts have been steady is never overestimated *)
(* by more than a contact that is not waiting allows.                      *)
(***************************************************************************)
LEMMA StillAwaits ==
    ASSUME NEW b \in Momentary!Button, NEW was \in BOOLEAN, NEW l \in BOOLEAN,
           NEW t \in Momentary!Time, NEW g \in 0 .. MaxGap,
           NEW quiet \in 0 .. DebounceTime, NEW later \in 0 .. DebounceTime,
           Awaits(b, was, t, quiet), later <= quiet + g, l # was => later = 0,
           NEW u \in Momentary!Time, u = Momentary!Later(t, g),
           NEW s, Sample(b, l, u, s)
    PROVE  Awaits(s, l, u, later)
<1>1. /\ DebounceTime \in Nat /\ TimeModulus \in Nat \ {0} /\ MaxGap \in Nat
      /\ MaxGap + DebounceTime <= TimeModulus /\ g \in Nat /\ g <= MaxGap
  BY PanelAssumption DEF PanelAssumption, Momentary!ButtonAssumption
<1>2. CASE ~b.initialized
  BY <1>2 DEF Sample, Awaits
<1>3. CASE b.initialized /\ l # was
  <2>1. later = 0 /\ s.candidateSinceMs = u
    BY <1>3 DEF Sample, Awaits, StartOf
  <2>2. Momentary!Elapsed(u, u) = 0
    BY <1>1, Clock
  <2>3. Accepts(b, l, u) <=> l # b.pressed /\ DebounceTime = 0
    BY <1>1, <1>3, <2>2 DEF Accepts, StartOf, Awaits
  <2> QED
    BY <1>1, <1>3, <2>1, <2>2, <2>3 DEF Sample, Awaits
<1>4. CASE b.initialized /\ l = was /\ b.pressed # was
  <2>1. /\ b.candidateSinceMs \in Momentary!Time
        /\ s.candidateSinceMs = b.candidateSinceMs
        /\ StartOf(b, l, u) = b.candidateSinceMs
    BY <1>4 DEF Sample, Awaits, StartOf, Momentary!Button
  <2>2. Momentary!Elapsed(t, b.candidateSinceMs) \in Momentary!Time
    BY <1>1, <2>1, Clock
  <2>3. /\ Momentary!Elapsed(t, b.candidateSinceMs) < DebounceTime
        /\ quiet <= Momentary!Elapsed(t, b.candidateSinceMs)
    BY <1>4 DEF Awaits
  <2>4. Momentary!Elapsed(u, b.candidateSinceMs)
            = Momentary!Elapsed(t, b.candidateSinceMs) + g
    <3>1. Momentary!Elapsed(t, b.candidateSinceMs) + g < TimeModulus
      BY <1>1, <2>2, <2>3 DEF Momentary!Time
    <3>2. Momentary!Elapsed(Momentary!Later(t, g), b.candidateSinceMs)
              = Momentary!Elapsed(t, b.candidateSinceMs) + g
      BY <2>1, <3>1, Clock
    <3> QED
      BY <3>2
  <2>5. later <= Momentary!Elapsed(u, b.candidateSinceMs)
    BY <1>1, <2>2, <2>3, <2>4 DEF Momentary!Time
  <2>6. Accepts(b, l, u) <=> Momentary!Elapsed(u, b.candidateSinceMs) >= DebounceTime
    BY <1>4, <2>1 DEF Accepts
  <2>7. Momentary!Elapsed(u, b.candidateSinceMs) \in Nat
    BY <1>1, <2>2, <2>4 DEF Momentary!Time
  <2> QED
    BY <1>1, <1>4, <2>1, <2>5, <2>6, <2>7 DEF Sample, Awaits
<1>5. CASE b.initialized /\ l = was /\ b.pressed = was
  BY <1>5 DEF Sample, Awaits, Accepts
<1> QED
  BY <1>2, <1>3, <1>4, <1>5

LEMMA AgeIsNatural ==
    ASSUME NEW t \in Momentary!Time, NEW since \in Momentary!Time
    PROVE  Momentary!Elapsed(t, since) \in Nat
<1>1. TimeModulus \in Nat \ {0} /\ 0 \in 0 .. MaxGap
  BY PanelAssumption DEF PanelAssumption, Momentary!ButtonAssumption
<1> QED
  BY <1>1 DEF Momentary!Elapsed, Momentary!Time

(***************************************************************************)
(* An age that is short of the debounce time grows by the gap.             *)
(***************************************************************************)
LEMMA AgesGrow ==
    ASSUME NEW t \in Momentary!Time, NEW g \in 0 .. MaxGap,
           NEW since \in Momentary!Time, Momentary!Elapsed(t, since) < DebounceTime
    PROVE  Momentary!Elapsed(Momentary!Later(t, g), since) = Momentary!Elapsed(t, since) + g
<1>1. /\ DebounceTime \in Nat /\ TimeModulus \in Nat \ {0} /\ MaxGap \in Nat
      /\ MaxGap + DebounceTime <= TimeModulus /\ g \in Nat /\ g <= MaxGap
  BY PanelAssumption DEF PanelAssumption, Momentary!ButtonAssumption
<1>2. Momentary!Elapsed(t, since) \in Momentary!Time
  BY Clock
<1>3. Momentary!Elapsed(t, since) + g < TimeModulus
  BY <1>1, <1>2 DEF Momentary!Time
<1> QED
  BY <1>3, Clock

-----------------------------------------------------------------------------
(***************************************************************************)
(* The On-Off-(On) switch.                                                 *)
(***************************************************************************)
Both == Switches!Contacts
Ready == debouncer["maintained"].initialized

(***************************************************************************)
(* Without an overlap, a contact that is closed has been closed for no     *)
(* longer than the other one, if that still counts as pressed, has been    *)
(* open: the other one is released first.                                  *)
(***************************************************************************)
BreakFirst ==
    Ready /\ ~overlapped =>
        /\ ~(contacts["maintained"] /\ contacts["momentary"])
        /\ \A a, b \in Both : a # b /\ contacts[a] /\ debouncer[b].pressed =>
               Momentary!Elapsed(now, debouncer[a].candidateSinceMs)
                   <= Momentary!Elapsed(now, debouncer[b].candidateSinceMs)

PositionInv ==
    /\ debouncer \in [Both -> Momentary!Button] /\ contacts \in [Both -> BOOLEAN]
    /\ steady \in 0 .. DebounceTime /\ overlapped \in BOOLEAN
    /\ debouncer["momentary"].initialized = Ready
    /\ IF component = "onOff" THEN now \in Momentary!Time ELSE ~Ready
    /\ ~Ready => /\ ~overlapped /\ ~snapshot.changed
                 /\ \A c \in Both : ~debouncer[c].pressed /\ ~contacts[c]
    /\ snapshot.position = Switches!derivePosition(Switches!Pressed(debouncer))
    /\ \A c \in Both : Awaits(debouncer[c], contacts[c], now, steady)
    /\ BreakFirst
    /\ Switches!InvalidNeedsOverlap

LEMMA PositionOf ==
    ASSUME NEW closed \in [Both -> BOOLEAN]
    PROVE  LET derived == Switches!derivePosition(closed) IN
           /\ derived = "Invalid" <=> closed["maintained"] /\ closed["momentary"]
           /\ derived \in {"On", "Invalid"} <=> closed["maintained"]
           /\ derived \in {"MomentaryOn", "Invalid"} <=> closed["momentary"]
  BY DEF Switches!derivePosition, Both, Switches!Contacts

(***************************************************************************)
(* A contact that has been steady for the debounce time is pressed if it   *)
(* is closed, so the position is what the contacts show.                   *)
(***************************************************************************)
LEMMA PositionInvSettles == PositionInv => PositionIsTrue
<1> SUFFICES ASSUME PositionInv PROVE PositionIsTrue
  OBVIOUS
<1> USE DEF PositionInv
<1>1. ASSUME steady = DebounceTime, NEW c \in Both
      PROVE  debouncer[c].pressed = contacts[c]
  <2>1. debouncer[c] \in Momentary!Button /\ contacts[c] \in BOOLEAN
    OBVIOUS
  <2>2. CASE ~Ready
    BY <2>1, <2>2 DEF Momentary!Button
  <2>3. CASE Ready
    <3>1. debouncer[c].initialized
      BY <2>3 DEF Ready, Both, Switches!Contacts
    <3>2. now \in Momentary!Time /\ debouncer[c].candidateSinceMs \in Momentary!Time
      BY <2>1, <2>3 DEF Momentary!Button
    <3>3. DebounceTime \in Nat
      BY PanelAssumption DEF PanelAssumption, Momentary!ButtonAssumption
    <3>4. Momentary!Elapsed(now, debouncer[c].candidateSinceMs) \in Nat
      BY <3>2, AgeIsNatural
    <3> QED
      BY <1>1, <3>1, <3>3, <3>4 DEF Awaits
  <2> QED
    BY <2>2, <2>3
<1>2. Switches!Pressed(debouncer) \in [Both -> BOOLEAN]
  BY DEF Switches!Pressed, Both, Momentary!Button
<1>3. \A c \in Both : Switches!Pressed(debouncer)[c] = debouncer[c].pressed
  BY DEF Switches!Pressed, Both
<1>4. "maintained" \in Both /\ "momentary" \in Both
  BY DEF Both, Switches!Contacts
<1>5. Switches!PositionSettles
  BY <1>1, <1>2, <1>3, <1>4, PositionOf DEF Switches!PositionSettles
<1> QED
  BY <1>5 DEF PositionIsTrue

(***************************************************************************)
(* A sample that makes the position Invalid completes an overlap.          *)
(***************************************************************************)
LEMMA PositionUpdated ==
    ASSUME PositionInv, component = "onOff", component' = component,
           NEW sample \in [Both -> BOOLEAN], NEW g \in 0 .. MaxGap,
           Switches!update(sample, g)
    PROVE  PositionInv'
<1>1. /\ DebounceTime \in Nat /\ TimeModulus \in Nat \ {0} /\ MaxGap \in Nat
      /\ MaxGap + DebounceTime <= TimeModulus /\ g \in Nat /\ g <= MaxGap
  BY PanelAssumption DEF PanelAssumption, Momentary!ButtonAssumption
<1>2. /\ debouncer \in [Both -> Momentary!Button] /\ contacts \in [Both -> BOOLEAN]
      /\ steady \in 0 .. DebounceTime /\ overlapped \in BOOLEAN
      /\ now \in Momentary!Time
      /\ snapshot.position = Switches!derivePosition(Switches!Pressed(debouncer))
  BY DEF PositionInv
<1>3. now' = Momentary!Later(now, g) /\ now' \in Momentary!Time
  BY <1>2, SameDebouncer, Clock DEF Switches!update
<1>4. ASSUME NEW c \in Both
      PROVE  Sample(debouncer[c], sample[c], now', debouncer'[c])
  <2>1. debouncer'[c] =
            Switches!WithoutDurations(Switches!Sampled(debouncer[c], sample[c], now'))
    BY DEF Switches!update, Both
  <2>2. debouncer[c] \in Momentary!Button /\ sample[c] \in BOOLEAN
    BY <1>2
  <2> QED
    BY <1>3, <2>1, <2>2, ContactSampled
<1>5. /\ debouncer' \in [Both -> Momentary!Button]
      /\ \A c \in Both : debouncer'[c].initialized
  <2>1. debouncer' = [c \in Both |-> debouncer'[c]]
    BY DEF Switches!update, Both
  <2> QED
    BY <1>4, <2>1 DEF Sample
<1>6. "maintained" \in Both /\ "momentary" \in Both
      /\ \A c \in Both : c = "maintained" \/ c = "momentary"
  BY DEF Both, Switches!Contacts
<1>7. Ready' /\ debouncer'["momentary"].initialized = Ready'
  BY <1>5, <1>6 DEF Ready, Momentary!Button
<1>8. /\ contacts' = sample /\ contacts' \in [Both -> BOOLEAN]
      /\ steady' = (IF sample # contacts THEN 0
                    ELSE IF steady + g > DebounceTime THEN DebounceTime ELSE steady + g)
      /\ overlapped' <=> \/ sample["maintained"] /\ sample["momentary"]
                         \/ overlapped /\ (sample["maintained"] \/ sample["momentary"])
      /\ overlapped' \in BOOLEAN
  BY <1>2, <1>6 DEF Switches!update, Switches!Observe
<1>9. steady' \in 0 .. DebounceTime /\ steady' <= steady + g
  BY <1>1, <1>2, <1>8
<1>10. ASSUME NEW c \in Both
       PROVE  Awaits(debouncer'[c], contacts'[c], now', steady')
  <2>1. sample[c] # contacts[c] => steady' = 0
    BY <1>8
  <2>2. Awaits(debouncer[c], contacts[c], now, steady)
    BY DEF PositionInv
  <2>3. debouncer[c] \in Momentary!Button /\ contacts[c] \in BOOLEAN /\ sample[c] \in BOOLEAN
    BY <1>2
  <2>4. Awaits(debouncer'[c], sample[c], now', steady')
    BY <1>2, <1>3, <1>4, <1>9, <2>1, <2>2, <2>3, StillAwaits
  <2> QED
    BY <1>8, <2>4
<1>11. BreakFirst'
  <2> SUFFICES ASSUME ~overlapped' PROVE
           /\ ~(sample["maintained"] /\ sample["momentary"])
           /\ \A a, b \in Both : a # b /\ sample[a] /\ debouncer'[b].pressed =>
                  Momentary!Elapsed(now', debouncer'[a].candidateSinceMs)
                      <= Momentary!Elapsed(now', debouncer'[b].candidateSinceMs)
    BY <1>8 DEF BreakFirst
  <2>1. ~(sample["maintained"] /\ sample["momentary"])
    BY <1>8
  <2>2. ASSUME NEW a \in Both, NEW b \in Both, a # b, sample[a], debouncer'[b].pressed
        PROVE  Momentary!Elapsed(now', debouncer'[a].candidateSinceMs)
                   <= Momentary!Elapsed(now', debouncer'[b].candidateSinceMs)
    <3>1. ~sample[b] /\ ~overlapped
      BY <1>6, <1>8, <2>1, <2>2
    <3>2. /\ debouncer[a] \in Momentary!Button /\ debouncer[b] \in Momentary!Button
          /\ debouncer'[a] \in Momentary!Button /\ debouncer'[b] \in Momentary!Button
          /\ sample[a] \in BOOLEAN /\ sample[b] \in BOOLEAN
      BY <1>2, <1>5
    <3>3. /\ Momentary!Elapsed(now', debouncer'[a].candidateSinceMs) \in Nat
          /\ Momentary!Elapsed(now', debouncer'[b].candidateSinceMs) \in Nat
      <4>1. /\ debouncer'[a].candidateSinceMs \in Momentary!Time
            /\ debouncer'[b].candidateSinceMs \in Momentary!Time
        BY <3>2 DEF Momentary!Button
      <4> QED
        BY <1>3, <4>1, AgeIsNatural
    <3>4. Momentary!Elapsed(now', now') = 0
      BY <1>1, <1>3, Clock
    <3>5. CASE ~Ready
      <4>1. ~debouncer[b].initialized
        BY <1>6, <3>5 DEF PositionInv, Ready
      <4>2. debouncer'[b].pressed = sample[b]
        BY <1>4, <4>1 DEF Sample
      <4> QED
        BY <2>2, <3>1, <4>2
    <3>6. CASE Ready /\ ~contacts[a]
      <4>1. debouncer[a].initialized /\ debouncer[a].candidatePressed = contacts[a]
        BY <1>6, <3>6 DEF PositionInv, Ready, Awaits
      <4>2. debouncer'[a].candidateSinceMs = now'
        BY <1>4, <2>2, <3>6, <4>1 DEF Sample, StartOf
      <4> QED
        BY <3>3, <3>4, <4>2
    <3>7. CASE Ready /\ contacts[a]
      <4>1. /\ debouncer[a].initialized /\ debouncer[a].candidatePressed = contacts[a]
            /\ debouncer[b].initialized /\ debouncer[b].candidatePressed = contacts[b]
        BY <1>6, <3>7 DEF PositionInv, Ready, Awaits
      <4>2. ~contacts[b]
        BY <1>6, <2>2, <3>1, <3>7 DEF PositionInv, BreakFirst
      <4>3. /\ debouncer'[a].candidateSinceMs = debouncer[a].candidateSinceMs
            /\ debouncer'[b].candidateSinceMs = debouncer[b].candidateSinceMs
        <5>1. sample[a] = contacts[a] /\ sample[b] = contacts[b]
          BY <1>2, <2>2, <3>1, <3>2, <3>7, <4>2
        <5> QED
          BY <1>4, <4>1, <5>1 DEF Sample, StartOf
      <4>4. debouncer[b].pressed
        BY <1>4, <2>2, <3>1, <4>1 DEF Sample
      <4>5. /\ Momentary!Elapsed(now, debouncer[a].candidateSinceMs)
                   <= Momentary!Elapsed(now, debouncer[b].candidateSinceMs)
            /\ Momentary!Elapsed(now, debouncer[b].candidateSinceMs) < DebounceTime
        BY <2>2, <3>1, <3>7, <4>1, <4>2, <4>4 DEF PositionInv, BreakFirst, Awaits
      <4>6. /\ debouncer[a].candidateSinceMs \in Momentary!Time
            /\ debouncer[b].candidateSinceMs \in Momentary!Time
        BY <3>2 DEF Momentary!Button
      <4>7. /\ Momentary!Elapsed(now, debouncer[a].candidateSinceMs) \in Nat
            /\ Momentary!Elapsed(now, debouncer[b].candidateSinceMs) \in Nat
        BY <1>2, <4>6, AgeIsNatural
      <4>8. Momentary!Elapsed(now, debouncer[a].candidateSinceMs) < DebounceTime
        BY <1>1, <4>5, <4>7
      <4>9. /\ Momentary!Elapsed(now', debouncer[a].candidateSinceMs)
                   = Momentary!Elapsed(now, debouncer[a].candidateSinceMs) + g
            /\ Momentary!Elapsed(now', debouncer[b].candidateSinceMs)
                   = Momentary!Elapsed(now, debouncer[b].candidateSinceMs) + g
        BY <1>2, <1>3, <4>5, <4>6, <4>8, AgesGrow
      <4> QED
        BY <1>1, <4>3, <4>5, <4>7, <4>9
    <3> QED
      BY <1>2, <3>5, <3>6, <3>7
  <2> QED
    BY <2>1, <2>2
<1>12. /\ Switches!Pressed(debouncer) \in [Both -> BOOLEAN]
       /\ Switches!Pressed(debouncer') \in [Both -> BOOLEAN]
       /\ \A c \in Both : /\ Switches!Pressed(debouncer)[c] = debouncer[c].pressed
                          /\ Switches!Pressed(debouncer')[c] = debouncer'[c].pressed
  BY <1>2, <1>5 DEF Switches!Pressed, Both, Momentary!Button
<1>13. /\ snapshot'.position = Switches!derivePosition(Switches!Pressed(debouncer'))
       /\ snapshot'.changed => snapshot'.position # snapshot.position
  BY DEF Switches!update, Switches!NextPosition
<1>14. Switches!InvalidNeedsOverlap'
  <2> SUFFICES ASSUME snapshot'.changed, snapshot'.position = "Invalid", ~overlapped'
               PROVE  FALSE
    BY <1>8 DEF Switches!InvalidNeedsOverlap
  <2>1. debouncer'["maintained"].pressed /\ debouncer'["momentary"].pressed
    BY <1>6, <1>12, <1>13, PositionOf
  <2>2. ~(debouncer["maintained"].pressed /\ debouncer["momentary"].pressed)
    BY <1>2, <1>6, <1>12, <1>13, PositionOf
  <2>3. PICK a \in Both : ~debouncer[a].pressed
    BY <1>6, <2>2
  <2>4. PICK b \in Both : b # a
    BY <1>6
  <2>5. /\ debouncer'[a].pressed /\ debouncer'[b].pressed
    BY <1>6, <2>1
  <2>6. ~(sample[a] /\ sample[b])
    BY <1>6, <1>8, <2>4
  <2>7. sample[a]
    BY <1>4, <2>3, <2>5 DEF Sample
  <2>8. Ready
    BY <1>4, <1>6, <2>5, <2>6, <2>7 DEF PositionInv, Ready, Sample
  <2>9. debouncer[a].initialized /\ debouncer[b].initialized
    BY <1>6, <2>8 DEF PositionInv, Ready
  <2>10. Accepts(debouncer[a], sample[a], now')
    BY <1>4, <2>3, <2>5, <2>9 DEF Sample
  <2>11. Momentary!Elapsed(now', debouncer'[a].candidateSinceMs) >= DebounceTime
    BY <1>4, <2>9, <2>10 DEF Sample, Accepts
  <2>12. Momentary!Elapsed(now', debouncer'[b].candidateSinceMs) < DebounceTime
    BY <1>5, <1>8, <1>10, <2>5, <2>6, <2>7 DEF Awaits
  <2>13. Momentary!Elapsed(now', debouncer'[a].candidateSinceMs)
             <= Momentary!Elapsed(now', debouncer'[b].candidateSinceMs)
    BY <1>7, <1>8, <1>11, <2>4, <2>5, <2>7 DEF BreakFirst
  <2>14. /\ Momentary!Elapsed(now', debouncer'[a].candidateSinceMs) \in Nat
         /\ Momentary!Elapsed(now', debouncer'[b].candidateSinceMs) \in Nat
    <3>1. /\ debouncer'[a].candidateSinceMs \in Momentary!Time
          /\ debouncer'[b].candidateSinceMs \in Momentary!Time
      BY <1>5 DEF Momentary!Button
    <3> QED
      BY <1>3, <3>1, AgeIsNatural
  <2> QED
    BY <1>1, <2>11, <2>12, <2>13, <2>14
<1> QED
  BY <1>3, <1>5, <1>7, <1>8, <1>9, <1>10, <1>11, <1>13, <1>14 DEF PositionInv

(***************************************************************************)
(* A reset takes the contacts as it finds them.                            *)
(***************************************************************************)
LEMMA PositionReset ==
    ASSUME PositionInv, component = "onOff", component' = component,
           NEW sample \in [Both -> BOOLEAN], NEW g \in 0 .. MaxGap,
           Switches!reset(sample, g)
    PROVE  PositionInv'
<1>1. DebounceTime \in Nat
  BY PanelAssumption DEF PanelAssumption, Momentary!ButtonAssumption
<1>2. now' = Momentary!Later(now, g) /\ now' \in Momentary!Time
  <2>1. now \in Momentary!Time
    BY DEF PositionInv
  <2> QED
    BY <2>1, SameDebouncer, Clock DEF Switches!reset
<1>3. ASSUME NEW c \in Both PROVE FreshAs(sample[c], now', debouncer'[c])
  <2>1. debouncer'[c] = Momentary!Fresh(sample[c], now')
    BY SameDebouncer DEF Switches!reset, Both
  <2> QED
    BY <1>2, <2>1, FreshFields
<1>4. /\ debouncer' \in [Both -> Momentary!Button]
      /\ \A c \in Both : /\ debouncer'[c].initialized /\ debouncer'[c].pressed = sample[c]
                         /\ debouncer'[c].candidatePressed = sample[c]
  <2>1. debouncer' = [c \in Both |-> debouncer'[c]]
    BY DEF Switches!reset, Both
  <2> QED
    BY <1>3, <2>1 DEF FreshAs
<1>5. "maintained" \in Both /\ "momentary" \in Both
      /\ \A c \in Both : c = "maintained" \/ c = "momentary"
  BY DEF Both, Switches!Contacts
<1>6. Ready' /\ debouncer'["momentary"].initialized = Ready'
  BY <1>4, <1>5 DEF Ready, Momentary!Button
<1>7. /\ contacts' = sample /\ contacts' \in [Both -> BOOLEAN] /\ steady' = 0
      /\ overlapped' = (sample["maintained"] /\ sample["momentary"])
      /\ overlapped' \in BOOLEAN /\ ~snapshot'.changed
      /\ snapshot'.position = Switches!derivePosition(sample)
  BY <1>5 DEF Switches!reset
<1>8. Switches!Pressed(debouncer') = sample
  BY <1>4 DEF Switches!Pressed, Both
<1>9. \A c \in Both : Awaits(debouncer'[c], contacts'[c], now', steady')
  BY <1>4, <1>7 DEF Awaits
<1>10. BreakFirst'
  BY <1>4, <1>5, <1>7 DEF BreakFirst
<1> QED
  BY <1>1, <1>2, <1>4, <1>6, <1>7, <1>8, <1>9, <1>10
  DEF PositionInv, Switches!InvalidNeedsOverlap

(***************************************************************************)
(* Two debouncers that accept their changes at different moments never     *)
(* make Invalid out of a break-before-make switch, and agree with the      *)
(* contacts when these have settled.                                       *)
(***************************************************************************)
THEOREM PositionComesFromContacts == PanelSpec => []PositionIsTrue
<1>1. PanelInit => PositionInv
  <2> SUFFICES ASSUME PanelInit PROVE PositionInv
    OBVIOUS
  <2>1. /\ TimeModulus \in Nat \ {0} /\ CountModulus \in Nat \ {0}
        /\ DebounceTime \in Nat
    BY PanelAssumption DEF PanelAssumption, Momentary!ButtonAssumption
  <2>2. 0 \in Momentary!Time /\ 0 \in 0 .. CountModulus - 1 /\ 0 \in 0 .. DebounceTime
    BY <2>1 DEF Momentary!Time
  <2>3. /\ debouncer = [c \in Both |-> Momentary!Constructed]
        /\ contacts = [c \in Both |-> FALSE] /\ now \in Momentary!Time
        /\ steady = 0 /\ overlapped = FALSE
        /\ snapshot.position = "Off" /\ ~snapshot.changed
    BY SameDebouncer DEF PanelInit, Switches!OnOffInit, Both
  <2>4. Momentary!Constructed \in Momentary!Button
    BY <2>2 DEF Momentary!Constructed, Momentary!Button
  <2>5. \A c \in Both : ~debouncer[c].initialized /\ ~debouncer[c].pressed
    BY <2>3 DEF Momentary!Constructed
  <2>6. "maintained" \in Both /\ "momentary" \in Both
    BY DEF Both, Switches!Contacts
  <2>7. ~Ready /\ debouncer["momentary"].initialized = Ready
    BY <2>3, <2>6 DEF Ready, Momentary!Constructed
  <2>8. snapshot.position = Switches!derivePosition(Switches!Pressed(debouncer))
    BY <2>3, <2>5, <2>6 DEF Switches!derivePosition, Switches!Pressed, Both
  <2> QED
    BY <2>2, <2>3, <2>4, <2>5, <2>7, <2>8
    DEF PositionInv, BreakFirst, Awaits, Switches!InvalidNeedsOverlap
<1>2. PositionInv /\ [PanelNext]_panelVars => PositionInv'
  <2> SUFFICES ASSUME PositionInv, [PanelNext]_panelVars PROVE PositionInv'
    OBVIOUS
  <2>1. CASE component = "onOff" /\ Switches!OnOffNext
    <3>1. PICK sample \in [Both -> BOOLEAN], g \in 0 .. MaxGap :
              Switches!reset(sample, g) \/ Switches!update(sample, g)
      BY <2>1 DEF Switches!OnOffNext, Both
    <3>2. component' = component
      BY ContactSteps
    <3> QED
      BY <2>1, <3>1, <3>2, PositionReset, PositionUpdated
  <2>2. CASE UNCHANGED onOff /\ (component = "onOff" => UNCHANGED now)
    <3>1. PositionInv = PositionInv'
      <4>1. UNCHANGED <<debouncer, snapshot, contacts, steady, overlapped, component>>
        BY <2>2, ContactSteps DEF onOff
      <4>2. Ready' = Ready /\ Switches!InvalidNeedsOverlap' = Switches!InvalidNeedsOverlap
        BY <4>1 DEF Ready, Switches!InvalidNeedsOverlap
      <4>3. CASE UNCHANGED now
        BY <4>1, <4>2, <4>3 DEF PositionInv, BreakFirst
      <4>4. CASE component # "onOff"
        <5>1. ~Ready /\ \A c \in Both : ~debouncer[c].initialized
          BY <4>4 DEF PositionInv, Ready, Both, Switches!Contacts
        <5> QED
          BY <4>1, <4>2, <4>4, <5>1 DEF PositionInv, BreakFirst, Awaits
      <4> QED
        BY <2>2, <4>3, <4>4
    <3> QED
      BY <3>1
  <2> QED
    BY <2>1, <2>2, ContactSteps
<1> QED
  BY <1>1, <1>2, PositionInvSettles, PTL DEF PanelSpec

-----------------------------------------------------------------------------
(***************************************************************************)
(* The bank of maintained switches.                                        *)
(***************************************************************************)
EvenWidth == CountModulus % 2 = 0
Mask == Switches!bitMask

(***************************************************************************)
(* A pole's snapshot is its debouncer's state, and its transition count is *)
(* odd just if its bit differs from where it was.                          *)
(***************************************************************************)
PoleInv(p) ==
    /\ switches[p].on = debouncers[p].pressed
    /\ switches[p].transitionCount = debouncers[p].transitionCount
    /\ ~debouncers[p].initialized => ~debouncers[p].pressed
    /\ Awaits(debouncers[p], levels[p], now, steadyFor)
    /\ switches[p].justTurnedOn <=> p \in Mask \ maskBefore
    /\ switches[p].justTurnedOff <=> p \in maskBefore \ Mask
    /\ EvenWidth => ((debouncers[p].transitionCount % 2 = 1) <=>
                        ((p \in Mask) # (p \in origin)))

MaskInv ==
    /\ debouncers \in [Pole -> Momentary!Button] /\ levels \in [Pole -> BOOLEAN]
    /\ steadyFor \in 0 .. DebounceTime
    /\ \A p, q \in Pole : debouncers[p].initialized = debouncers[q].initialized
    /\ IF component = "maintained" THEN now \in Momentary!Time
       ELSE \A p \in Pole : ~debouncers[p].initialized
    /\ \A p \in Pole : PoleInv(p)

(***************************************************************************)
(* Poles that have been steady for the debounce time await nothing.        *)
(***************************************************************************)
LEMMA MaskInvAnnounces == MaskInv => MaskIsAnnounced
<1> SUFFICES ASSUME MaskInv PROVE MaskIsAnnounced
  OBVIOUS
<1>1. \A p \in Pole : p \in Mask <=> switches[p].on
  BY DEF Mask, Switches!bitMask
<1>2. ASSUME steadyFor = DebounceTime, ~Switches!First, NEW p \in Pole
      PROVE  p \in Mask <=> levels[p]
  <2>1. /\ debouncers[p] \in Momentary!Button /\ levels[p] \in BOOLEAN
        /\ debouncers[p].initialized /\ now \in Momentary!Time
    BY <1>2 DEF MaskInv, Switches!First
  <2>2. DebounceTime \in Nat
    BY PanelAssumption DEF PanelAssumption, Momentary!ButtonAssumption
  <2>3. Momentary!Elapsed(now, debouncers[p].candidateSinceMs) \in Nat
    BY <2>1, AgeIsNatural DEF Momentary!Button
  <2>4. debouncers[p].pressed = levels[p] /\ switches[p].on = debouncers[p].pressed
    BY <1>2, <2>1, <2>2, <2>3 DEF MaskInv, PoleInv, Awaits
  <2> QED
    BY <1>1, <2>4
<1>3. steadyFor = DebounceTime /\ ~Switches!First => Mask = {p \in Pole : levels[p]}
  <2> SUFFICES ASSUME steadyFor = DebounceTime, ~Switches!First
               PROVE  Mask = {p \in Pole : levels[p]}
    OBVIOUS
  <2>1. Mask \subseteq Pole
    BY DEF Mask, Switches!bitMask
  <2> QED
    BY <1>2, <2>1
<1> QED
  BY <1>3 DEF MaskIsAnnounced, Switches!MaskIsAnnounced, MaskInv, PoleInv, EvenWidth, Mask

(***************************************************************************)
(* What the first sample, or a reset, makes of a pole.                     *)
(***************************************************************************)
LEMMA PoleRestarted ==
    ASSUME NEW p \in Pole, debouncers'[p] \in Momentary!Button,
           debouncers'[p].initialized, debouncers'[p].candidatePressed = levels'[p],
           debouncers'[p].pressed = levels'[p], debouncers'[p].transitionCount = 0,
           switches'[p].on = debouncers'[p].pressed,
           ~switches'[p].justTurnedOn, ~switches'[p].justTurnedOff,
           switches'[p].transitionCount = 0,
           maskBefore' = Mask', origin' = Mask'
    PROVE  PoleInv(p)'
  BY DEF PoleInv, Awaits

LEMMA BankReset ==
    ASSUME MaskInv, component = "maintained", component' = component,
           NEW sample \in [Pole -> BOOLEAN], NEW g \in 0 .. MaxGap,
           Switches!resetBank(sample, g)
    PROVE  MaskInv'
<1>1. DebounceTime \in Nat /\ 0 \in Momentary!Time /\ 0 \in 0 .. CountModulus - 1
  BY PanelAssumption DEF PanelAssumption, Momentary!ButtonAssumption, Momentary!Time
<1>2. now' = Momentary!Later(now, g) /\ now' \in Momentary!Time
  <2>1. now \in Momentary!Time
    BY DEF MaskInv
  <2> QED
    BY <2>1, SameDebouncer, Clock DEF Switches!resetBank
<1>3. ASSUME NEW p \in Pole
      PROVE  /\ debouncers'[p] \in Momentary!Button /\ debouncers'[p].initialized
             /\ debouncers'[p].candidatePressed = sample[p]
             /\ debouncers'[p].pressed = sample[p]
             /\ debouncers'[p].transitionCount = 0
  <2> DEFINE s == Momentary!Fresh(sample[p], now')
  <2>1. debouncers'[p] = Switches!Timeless(s)
    BY SameDebouncer DEF Switches!resetBank
  <2>2. FreshAs(sample[p], now', s)
    BY <1>2, FreshFields
  <2> HIDE DEF s
  <2> QED
    BY <1>1, <2>1, <2>2 DEF FreshAs, Switches!Timeless, Momentary!Button
<1>4. debouncers' \in [Pole -> Momentary!Button]
  <2>1. debouncers' = [p \in Pole |-> debouncers'[p]]
    BY DEF Switches!resetBank
  <2> QED
    BY <1>3, <2>1
<1>5. levels' = sample /\ steadyFor' = 0 /\ maskBefore' = Mask' /\ origin' = Mask'
  BY DEF Switches!resetBank, Mask
<1>6. ASSUME NEW p \in Pole
      PROVE  /\ switches'[p].on = debouncers'[p].pressed
             /\ ~switches'[p].justTurnedOn /\ ~switches'[p].justTurnedOff
             /\ switches'[p].transitionCount = 0
  BY DEF Switches!resetBank, Switches!Off
<1>7. \A p \in Pole : PoleInv(p)'
  BY <1>3, <1>5, <1>6, PoleRestarted
<1>8. \A p, q \in Pole : debouncers'[p].initialized = debouncers'[q].initialized
  BY <1>3 DEF Momentary!Button
<1> QED
  BY <1>1, <1>2, <1>4, <1>5, <1>7, <1>8 DEF MaskInv

(***************************************************************************)
(* A sample changes a bit together with its event and its count.           *)
(***************************************************************************)
LEMMA BankUpdated ==
    ASSUME MaskInv, component = "maintained", component' = component,
           NEW sample \in [Pole -> BOOLEAN], NEW g \in 0 .. MaxGap,
           Switches!updateBank(sample, g)
    PROVE  MaskInv'
<1>1. /\ DebounceTime \in Nat /\ MaxGap \in Nat /\ g \in Nat
      /\ CountModulus \in Nat \ {0}
  BY PanelAssumption DEF PanelAssumption, Momentary!ButtonAssumption
<1>2. /\ debouncers \in [Pole -> Momentary!Button] /\ levels \in [Pole -> BOOLEAN]
      /\ steadyFor \in 0 .. DebounceTime /\ now \in Momentary!Time
      /\ \A p, q \in Pole : debouncers[p].initialized = debouncers[q].initialized
      /\ \A p \in Pole : PoleInv(p)
  BY DEF MaskInv
<1>3. now' = Momentary!Later(now, g) /\ now' \in Momentary!Time
  BY <1>2, SameDebouncer, Clock DEF Switches!updateBank
<1>4. ASSUME NEW p \in Pole
      PROVE  /\ Sample(debouncers[p], sample[p], now', debouncers'[p])
             /\ debouncers'[p].transitionCount =
                    IF debouncers[p].initialized /\ Accepts(debouncers[p], sample[p], now')
                    THEN Momentary!Count(debouncers[p])
                    ELSE IF debouncers[p].initialized
                         THEN debouncers[p].transitionCount ELSE 0
  <2>1. debouncers'[p] =
            Switches!Timeless(Switches!Sampled(debouncers[p], sample[p], now'))
    BY DEF Switches!updateBank
  <2>2. debouncers[p] \in Momentary!Button /\ sample[p] \in BOOLEAN
    BY <1>2
  <2> QED
    BY <1>3, <2>1, <2>2, ContactSampled
<1>5. /\ debouncers' \in [Pole -> Momentary!Button]
      /\ \A p \in Pole : debouncers'[p].initialized
  <2>1. debouncers' = [p \in Pole |-> debouncers'[p]]
    BY DEF Switches!updateBank
  <2> QED
    BY <1>4, <2>1 DEF Sample
<1>6. \A p, q \in Pole : debouncers'[p].initialized = debouncers'[q].initialized
  BY <1>5 DEF Momentary!Button
<1>7. /\ levels' = sample
      /\ steadyFor' = (IF sample # levels \/ Switches!First THEN 0
                       ELSE IF steadyFor + g > DebounceTime THEN DebounceTime
                       ELSE steadyFor + g)
      /\ maskBefore' = (IF Switches!First THEN Mask' ELSE Mask)
      /\ origin' = (IF Switches!First THEN Mask' ELSE origin)
  BY DEF Switches!updateBank, Mask
<1>8. steadyFor' \in 0 .. DebounceTime /\ steadyFor' <= steadyFor + g
  BY <1>1, <1>2, <1>7
<1>9. ASSUME NEW p \in Pole
      PROVE  /\ switches'[p].on = debouncers'[p].pressed
             /\ switches'[p].justTurnedOn = debouncers'[p].justPressed
             /\ switches'[p].justTurnedOff = debouncers'[p].justReleased
             /\ switches'[p].transitionCount = debouncers'[p].transitionCount
  BY DEF Switches!updateBank, Switches!Derived
<1>10. ASSUME NEW p \in Pole
       PROVE  (p \in Mask <=> debouncers[p].pressed) /\ (p \in Mask' <=> debouncers'[p].pressed)
  BY <1>2, <1>9 DEF Mask, Switches!bitMask, PoleInv
<1>11. ASSUME NEW p \in Pole PROVE Awaits(debouncers'[p], levels'[p], now', steadyFor')
  <2>1. sample[p] # levels[p] => steadyFor' = 0
    BY <1>7
  <2>2. Awaits(debouncers[p], levels[p], now, steadyFor)
    BY <1>2 DEF PoleInv
  <2>3. debouncers[p] \in Momentary!Button /\ levels[p] \in BOOLEAN /\ sample[p] \in BOOLEAN
    BY <1>2
  <2>4. Awaits(debouncers'[p], sample[p], now', steadyFor')
    BY <1>2, <1>3, <1>4, <1>8, <2>1, <2>2, <2>3, StillAwaits
  <2> QED
    BY <1>7, <2>4
<1>12. ASSUME NEW p \in Pole PROVE PoleInv(p)'
  <2>1. /\ debouncers[p] \in Momentary!Button /\ debouncers'[p] \in Momentary!Button
        /\ debouncers'[p].initialized /\ sample[p] \in BOOLEAN
    BY <1>2, <1>5
  <2>2. CASE Switches!First
    <3>1. ~debouncers[p].initialized
      BY <1>2, <2>2 DEF Switches!First
    <3>2. /\ debouncers'[p].candidatePressed = levels'[p]
          /\ debouncers'[p].pressed = levels'[p] /\ debouncers'[p].transitionCount = 0
          /\ ~debouncers'[p].justPressed /\ ~debouncers'[p].justReleased
      BY <1>4, <1>7, <3>1 DEF Sample
    <3> QED
      BY <1>7, <1>9, <2>1, <2>2, <3>2, PoleRestarted
  <2>3. CASE ~Switches!First
    <3>1. debouncers[p].initialized /\ maskBefore' = Mask /\ origin' = origin
      BY <1>7, <2>3 DEF Switches!First
    <3>2. CASE Accepts(debouncers[p], sample[p], now')
      <4>1. /\ debouncers'[p].pressed = sample[p] /\ sample[p] # debouncers[p].pressed
            /\ debouncers'[p].justPressed <=> sample[p]
            /\ debouncers'[p].justReleased <=> ~sample[p]
        BY <1>4, <3>1, <3>2 DEF Sample, Accepts
      <4>2. debouncers[p].pressed \in BOOLEAN
        BY <2>1 DEF Momentary!Button
      <4>3. /\ p \in Mask' <=> p \notin Mask
            /\ switches'[p].justTurnedOn <=> p \in Mask' \ maskBefore'
            /\ switches'[p].justTurnedOff <=> p \in maskBefore' \ Mask'
        BY <1>9, <1>10, <2>1, <3>1, <4>1, <4>2
      <4>4. EvenWidth => ((debouncers'[p].transitionCount % 2 = 1) <=>
                              ~(debouncers[p].transitionCount % 2 = 1))
        <5>1. debouncers'[p].transitionCount = (debouncers[p].transitionCount + 1) % CountModulus
          BY <1>4, <3>1, <3>2 DEF Momentary!Count
        <5>2. debouncers[p].transitionCount \in 0 .. CountModulus - 1
          BY <2>1 DEF Momentary!Button
        <5>3. debouncers'[p].transitionCount =
                  IF debouncers[p].transitionCount + 1 = CountModulus THEN 0
                  ELSE debouncers[p].transitionCount + 1
          BY <1>1, <5>1, <5>2
        <5> QED
          BY <1>1, <5>2, <5>3 DEF EvenWidth
      <4>5. EvenWidth => ((debouncers[p].transitionCount % 2 = 1) <=>
                              ((p \in Mask) # (p \in origin)))
        BY <1>2 DEF PoleInv
      <4>6. EvenWidth => ((debouncers'[p].transitionCount % 2 = 1) <=>
                              ((p \in Mask') # (p \in origin')))
        BY <3>1, <4>3, <4>4, <4>5
      <4> QED
        BY <1>9, <1>11, <2>1, <4>3, <4>6 DEF PoleInv
    <3>3. CASE ~Accepts(debouncers[p], sample[p], now')
      <4>1. /\ debouncers'[p].pressed = debouncers[p].pressed
            /\ ~debouncers'[p].justPressed /\ ~debouncers'[p].justReleased
            /\ debouncers'[p].transitionCount = debouncers[p].transitionCount
        BY <1>4, <3>1, <3>3 DEF Sample
      <4>2. /\ p \in Mask' <=> p \in Mask
            /\ switches'[p].justTurnedOn <=> p \in Mask' \ maskBefore'
            /\ switches'[p].justTurnedOff <=> p \in maskBefore' \ Mask'
        BY <1>9, <1>10, <3>1, <4>1
      <4>3. EvenWidth => ((debouncers'[p].transitionCount % 2 = 1) <=>
                              ((p \in Mask') # (p \in origin')))
        BY <1>2, <3>1, <4>1, <4>2 DEF PoleInv
      <4> QED
        BY <1>9, <1>11, <2>1, <4>2, <4>3 DEF PoleInv
    <3> QED
      BY <3>2, <3>3
  <2> QED
    BY <2>2, <2>3
<1> QED
  BY <1>3, <1>5, <1>6, <1>7, <1>8, <1>12 DEF MaskInv

(***************************************************************************)
(* The mask of a bank of any number of switches settles, and changes by    *)
(* the poles that report an event.                                         *)
(***************************************************************************)
THEOREM MaskNeverChangesSilently == PanelSpec => []MaskIsAnnounced
<1>1. PanelInit => MaskInv
  <2> SUFFICES ASSUME PanelInit PROVE MaskInv
    OBVIOUS
  <2>1. /\ TimeModulus \in Nat \ {0} /\ CountModulus \in Nat \ {0}
        /\ DebounceTime \in Nat
    BY PanelAssumption DEF PanelAssumption, Momentary!ButtonAssumption
  <2>2. 0 \in Momentary!Time /\ 0 \in 0 .. CountModulus - 1 /\ 0 \in 0 .. DebounceTime
    BY <2>1 DEF Momentary!Time
  <2>3. /\ debouncers = [p \in Pole |-> Momentary!Constructed]
        /\ switches = [p \in Pole |-> Switches!Off]
        /\ levels = [p \in Pole |-> FALSE] /\ now \in Momentary!Time
        /\ steadyFor = 0 /\ maskBefore = {} /\ origin = {}
    BY SameDebouncer DEF PanelInit, Switches!SwitchInit
  <2>4. Momentary!Constructed \in Momentary!Button
    BY <2>2 DEF Momentary!Constructed, Momentary!Button
  <2>5. ASSUME NEW p \in Pole
        PROVE  /\ ~debouncers[p].initialized /\ ~debouncers[p].pressed
               /\ debouncers[p].transitionCount = 0
               /\ switches[p].on = debouncers[p].pressed /\ ~switches[p].on /\ switches[p].transitionCount = 0
               /\ ~switches[p].justTurnedOn /\ ~switches[p].justTurnedOff
    BY <2>3 DEF Momentary!Constructed, Switches!Off
  <2>6. Mask = {}
    BY <2>5 DEF Mask, Switches!bitMask
  <2>7. ASSUME NEW p \in Pole PROVE PoleInv(p)
    <3>1. ~(debouncers[p].transitionCount % 2 = 1)
      <4>1. debouncers[p].transitionCount = 0
        BY <2>5
      <4> QED
        BY <4>1
    <3>2. p \notin Mask /\ p \notin maskBefore /\ p \notin origin
      BY <2>3, <2>6
    <3>3. Awaits(debouncers[p], levels[p], now, steadyFor)
      BY <2>5 DEF Awaits
    <3> QED
      BY <2>5, <3>1, <3>2, <3>3 DEF PoleInv
  <2> QED
    BY <2>2, <2>3, <2>4, <2>5, <2>7 DEF MaskInv
<1>2. MaskInv /\ [PanelNext]_panelVars => MaskInv'
  <2> SUFFICES ASSUME MaskInv, [PanelNext]_panelVars PROVE MaskInv'
    OBVIOUS
  <2>1. CASE component = "maintained" /\ Switches!SwitchNext
    <3>1. PICK sample \in [Pole -> BOOLEAN], g \in 0 .. MaxGap :
              Switches!resetBank(sample, g) \/ Switches!updateBank(sample, g)
      BY <2>1 DEF Switches!SwitchNext
    <3>2. component' = component
      BY ContactSteps
    <3> QED
      BY <2>1, <3>1, <3>2, BankReset, BankUpdated
  <2>2. CASE UNCHANGED maintained /\ (component = "maintained" => UNCHANGED now)
    <3>1. UNCHANGED <<debouncers, switches, levels, steadyFor, maskBefore, origin, component>>
      BY <2>2, ContactSteps DEF maintained
    <3>2. Mask' = Mask
      BY <3>1 DEF Mask, Switches!bitMask
    <3>3. CASE UNCHANGED now
      BY <3>1, <3>2, <3>3 DEF MaskInv, PoleInv
    <3>4. CASE component # "maintained"
      BY <3>1, <3>2, <3>4 DEF MaskInv, PoleInv, Awaits
    <3> QED
      BY <2>2, <3>3, <3>4
  <2> QED
    BY <2>1, <2>2, ContactSteps
<1> QED
  BY <1>1, <1>2, MaskInvAnnounces, PTL DEF PanelSpec

-----------------------------------------------------------------------------
(***************************************************************************)
(* The same of the dials and of the signals.                               *)
(***************************************************************************)
LEMMA DialSteps ==
    ASSUME [PanelNext]_panelVars
    PROVE  /\ UNCHANGED component
           /\ \/ component = "presses" /\ Presses!Next
              \/ UNCHANGED presses /\ (component = "presses" => UNCHANGED now)
           /\ \/ component = "knob" /\ Turning!KnobNext
              \/ UNCHANGED turning
           /\ \/ component = "ladder" /\ Buttons!LadderNext
              \/ UNCHANGED ladders /\ (component = "ladder" => UNCHANGED now)
<1>1. CASE UNCHANGED panelVars
  BY <1>1 DEF panelVars, contactVars, dialVars
<1>2. CASE PanelNext
  <2>1. CASE component = "queue"
    BY <1>2, <2>1
    DEF PanelNext, ContactNext, DialNext, SignalNext, contactVars, dialVars
  <2>2. CASE ContactNext
    BY <1>2, <2>2 DEF PanelNext, ContactNext, dialVars
  <2>3. CASE DialNext
    BY <1>2, <2>3 DEF PanelNext, DialNext, contactVars
  <2>4. CASE SignalNext
    BY <1>2, <2>4 DEF PanelNext, SignalNext, contactVars, dialVars
  <2> QED
    BY <1>2, <2>1, <2>2, <2>3, <2>4 DEF PanelNext
<1> QED
  BY <1>1, <1>2

LEMMA SignalSteps ==
    ASSUME [PanelNext]_panelVars
    PROVE  /\ UNCHANGED component
           /\ \/ component = "gates" /\ Gates!GateNext
              \/ UNCHANGED gates /\ (component = "gates" => UNCHANGED now)
           /\ \/ component = "positions" /\ Signals!PositionNext
              \/ UNCHANGED positions
           /\ \/ component = "voltages" /\ Signals!VoltageNext
              \/ UNCHANGED voltages
           /\ \/ component = "lamps" /\ Lamps!LedNext
              \/ UNCHANGED lamps
<1>1. CASE UNCHANGED panelVars
  BY <1>1 DEF panelVars, signalVars
<1>2. CASE PanelNext
  <2>1. CASE component = "queue"
    BY <1>2, <2>1 DEF PanelNext, ContactNext, DialNext, SignalNext, signalVars
  <2>2. CASE ContactNext
    BY <1>2, <2>2 DEF PanelNext, ContactNext, signalVars
  <2>3. CASE DialNext
    BY <1>2, <2>3 DEF PanelNext, DialNext, signalVars
  <2>4. CASE SignalNext
    BY <1>2, <2>4
    DEF PanelNext, SignalNext, Signals!PositionNext, Signals!VoltageNext,
        Signals!resetKnob, Signals!updateKnob, Signals!Convert,
        Signals!positionVars, Signals!voltageVars, positions, voltages
  <2> QED
    BY <1>2, <2>1, <2>2, <2>3, <2>4 DEF PanelNext
<1> QED
  BY <1>1, <1>2

-----------------------------------------------------------------------------
(***************************************************************************)
(* Triggers and gates.                                                     *)
(***************************************************************************)

(***************************************************************************)
(* A pulse is as old as the sender's clock says, and young enough to       *)
(* continue; an output that is high, which the input has not noticed, has  *)
(* risen since the input's last edge.                                      *)
(***************************************************************************)
GateInv ==
    /\ pulseAge \in 0 .. PulseMs
    /\ trigger \in Gates!Trigger
    /\ component = "gates" => now \in Gates!Time
    /\ component # "gates" => ~trigger.high
    /\ trigger.high => /\ Gates!Elapsed(now, trigger.startedAtMs) = pulseAge
                       /\ pulseAge = 0 \/ pulseAge < PulseMs
    /\ output.high /\ ~input.high => sent
    /\ TriggersArriveOnce

LEMMA PulseClock ==
    ASSUME NEW t \in Gates!Time, NEW since \in Gates!Time, NEW g \in 0 .. MaxPulseGap
    PROVE  /\ Gates!Later(t, g) \in Gates!Time
           /\ Gates!Elapsed(t, since) \in Nat /\ Gates!Elapsed(t, t) = 0
           /\ Gates!Elapsed(t, since) + g < TimeModulus =>
                  Gates!Elapsed(Gates!Later(t, g), since) = Gates!Elapsed(t, since) + g
<1>1. /\ TimeModulus \in Nat \ {0} /\ MaxPulseGap \in Nat /\ PulseMs \in Nat
      /\ MaxPulseGap + PulseMs <= TimeModulus
  BY PanelAssumption DEF PanelAssumption, Gates!GateAssumption
<1>2. /\ g \in Nat /\ g <= TimeModulus /\ t \in Nat /\ since \in Nat
      /\ t < TimeModulus /\ since < TimeModulus
  BY <1>1 DEF Gates!Time
<1>3. Gates!Later(t, g) = IF t + g < TimeModulus THEN t + g ELSE t + g - TimeModulus
  BY <1>1, <1>2 DEF Gates!Later
<1> QED
  BY <1>1, <1>2, <1>3 DEF Gates!Elapsed, Gates!Time

LEMMA GateStep ==
    ASSUME GateInv, component = "gates", component' = component, Gates!GateNext
    PROVE  GateInv'
<1>1. /\ TimeModulus \in Nat \ {0} /\ PulseMs \in Nat /\ MaxPulseGap \in Nat
      /\ MaxPulseGap + PulseMs <= TimeModulus
  BY PanelAssumption DEF PanelAssumption, Gates!GateAssumption
<1>2. now \in Gates!Time
  BY DEF GateInv
<1>3. ASSUME NEW g \in 0 .. MaxPulseGap
      PROVE  /\ Gates!Later(now, g) \in Gates!Time
             /\ g \in Nat /\ g <= MaxPulseGap
  BY <1>1, <1>2, PulseClock
<1>4. ASSUME Gates!setHigh(trigger'.high), UNCHANGED <<input, gate, earned>>
      PROVE  (output.high /\ ~input.high => sent)' /\ Gates!EdgesArriveOnce'
  BY <1>4 DEF Gates!setHigh, GateInv, TriggersArriveOnce, Gates!EdgesArriveOnce
<1>5. ASSUME NEW g \in 0 .. MaxPulseGap, Gates!StartPulse(g) PROVE GateInv'
  <2>1. /\ trigger'.high /\ trigger'.started /\ ~trigger'.ended
        /\ trigger'.startedAtMs = now' /\ now' \in Gates!Time /\ pulseAge' = 0
    BY <1>3, <1>5 DEF Gates!StartPulse
  <2>2. Gates!Elapsed(now', trigger'.startedAtMs) = 0
    BY <1>1, <2>1, PulseClock
  <2>3. trigger' \in Gates!Trigger
    BY <1>5, <2>1 DEF Gates!StartPulse, Gates!Trigger
  <2> QED
    BY <1>1, <1>4, <1>5, <2>1, <2>2, <2>3
    DEF GateInv, TriggersArriveOnce, Gates!PulseKeepsItsTime, Gates!StartPulse
<1>6. ASSUME NEW g \in 0 .. MaxPulseGap, Gates!UpdatePulse(g) PROVE GateInv'
  <2> DEFINE over == Gates!PulseIsOver(now')
  <2>1. /\ now' = Gates!Later(now, g) /\ now' \in Gates!Time
        /\ ~trigger'.started /\ trigger'.ended = over
        /\ trigger'.high <=> trigger.high /\ ~over
        /\ trigger'.startedAtMs = trigger.startedAtMs
        /\ pulseAge' = Gates!UpTo(pulseAge + g)
    BY <1>3, <1>6 DEF Gates!UpdatePulse, GateInv, Gates!Trigger
  <2>2. trigger.high /\ PulseMs # 0 =>
            Gates!Elapsed(now', trigger.startedAtMs) = pulseAge + g
    <3>1. trigger.startedAtMs \in Gates!Time
      BY DEF GateInv, Gates!Trigger
    <3>2. trigger.high /\ PulseMs # 0 =>
              /\ Gates!Elapsed(now, trigger.startedAtMs) = pulseAge
              /\ pulseAge + g < TimeModulus
      BY <1>1, <1>3 DEF GateInv
    <3> QED
      BY <1>2, <2>1, <3>1, <3>2, PulseClock
  <2>3. pulseAge' \in 0 .. PulseMs
    BY <1>1, <1>3, <2>1 DEF GateInv, Gates!UpTo
  <2>4. over <=> trigger.high /\ Gates!Elapsed(now', trigger.startedAtMs) >= PulseMs
    BY DEF Gates!PulseIsOver
  <2>5. Gates!Elapsed(now', trigger.startedAtMs) \in Nat
    BY <1>1, <2>1, PulseClock DEF GateInv, Gates!Trigger
  <2>6. over => pulseAge' = PulseMs
    BY <1>1, <1>3, <2>1, <2>2, <2>3, <2>4 DEF GateInv, Gates!UpTo
  <2>7. trigger.high /\ ~over =>
            pulseAge' = Gates!Elapsed(now', trigger.startedAtMs) /\ pulseAge' < PulseMs
    BY <1>1, <1>3, <2>1, <2>2, <2>4, <2>5 DEF GateInv, Gates!UpTo
  <2>8. trigger' \in Gates!Trigger
    BY <1>6 DEF Gates!UpdatePulse, Gates!PulseIsOver, GateInv, Gates!Trigger
  <2> HIDE DEF over
  <2> QED
    BY <1>4, <1>6, <2>1, <2>3, <2>6, <2>7, <2>8
    DEF GateInv, TriggersArriveOnce, Gates!PulseKeepsItsTime, Gates!UpdatePulse
<1>7. ASSUME NEW v \in GateVolts, Gates!Measure(v) PROVE GateInv'
  <2>1. UNCHANGED <<now, trigger, output, pulseAge>>
    BY <1>7 DEF Gates!Measure
  <2>2. /\ input' = Gates!Sampled(input, v) /\ gate' = Gates!Sampled(gate, v)
        /\ sent' = (sent /\ ~input'.rising)
        /\ earned' = IF input'.rising THEN sent ELSE earned
        /\ IF output.high THEN v > lowMaximum ELSE v < highMinimum
    BY <1>7
    DEF Gates!Measure, Gates!updateJack, Gates!updateGate, Gates!Measurable
  <2>3. /\ input'.high <=> IF input.high THEN v > lowMaximum ELSE v >= highMinimum
        /\ input'.rising <=> input'.high /\ ~input.high
    BY <2>2 DEF Gates!Sampled, Gates!Hysteretic
  <2>4. input'.rising => output.high
    <3>1. SUFFICES ASSUME ~output.high, v >= highMinimum PROVE FALSE
      BY <2>3
    <3>2. v < highMinimum /\ highMinimum \in Int /\ v \in Int
      BY <2>2, <3>1, PanelAssumption DEF PanelAssumption, Gates!GateAssumption
    <3> QED
      BY <3>1, <3>2
  <2>5. (output.high /\ ~input.high => sent)'
    BY <2>1, <2>2, <2>3 DEF GateInv
  <2>6. Gates!EdgesArriveOnce'
    BY <2>2, <2>3, <2>4 DEF GateInv, TriggersArriveOnce, Gates!EdgesArriveOnce
  <2> QED
    BY <2>1, <2>5, <2>6 DEF GateInv, TriggersArriveOnce, Gates!PulseKeepsItsTime
<1> QED
  BY <1>5, <1>6, <1>7 DEF Gates!GateNext

(***************************************************************************)
(* Every pulse lasts for its time, and is received once.                   *)
(***************************************************************************)
THEOREM NoTriggerArrivesTwice == PanelSpec => []TriggersArriveOnce
<1>1. PanelInit => GateInv
  <2> SUFFICES ASSUME PanelInit PROVE GateInv
    OBVIOUS
  <2>1. TimeModulus \in Nat \ {0} /\ PulseMs \in Nat
    BY PanelAssumption DEF PanelAssumption, Gates!GateAssumption
  <2>2. Gates!GateInit
    BY DEF PanelInit
  <2> QED
    BY <2>1, <2>2
    DEF Gates!GateInit, Gates!Resting, Gates!Time, Gates!Trigger, GateInv, TriggersArriveOnce,
        Gates!PulseKeepsItsTime, Gates!EdgesArriveOnce
<1>2. GateInv /\ [PanelNext]_panelVars => GateInv'
  <2> SUFFICES ASSUME GateInv, [PanelNext]_panelVars PROVE GateInv'
    OBVIOUS
  <2>1. CASE component = "gates" /\ Gates!GateNext
    BY <2>1, SignalSteps, GateStep
  <2>2. CASE UNCHANGED gates /\ (component = "gates" => UNCHANGED now)
    <3>1. UNCHANGED <<trigger, output, input, gate, pulseAge, sent, earned, component>>
      BY <2>2, SignalSteps DEF gates
    <3>2. TriggersArriveOnce'
      BY <3>1
      DEF GateInv, TriggersArriveOnce, Gates!PulseKeepsItsTime, Gates!EdgesArriveOnce
    <3> QED
      BY <2>2, <3>1, <3>2 DEF GateInv
  <2> QED
    BY <2>1, <2>2, SignalSteps
<1>3. GateInv => TriggersArriveOnce
  BY DEF GateInv
<1> QED
  BY <1>1, <1>2, <1>3, PTL DEF PanelSpec

-----------------------------------------------------------------------------
(***************************************************************************)
(* Quotients and remainders.                                               *)
(***************************************************************************)
LEMMA Division ==
    ASSUME NEW a \in Int, NEW n \in Nat \ {0}
    PROVE  /\ a \div n \in Int /\ a % n \in 0 .. n - 1
           /\ a = n * (a \div n) + (a % n)
<1>1. a \div n \in Int
  BY SMT
<1>2. a % n \in 0 .. n - 1
  BY SMT
<1>3. a = (a \div n) * n + (a % n)
  BY SMTT(20)
<1>4. (a \div n) * n = n * (a \div n)
  BY <1>1, SMT
<1> QED
  BY <1>1, <1>2, <1>3, <1>4

LEMMA DivisionIsUnique ==
    ASSUME NEW n \in Nat \ {0}, NEW q \in Int, NEW p \in Int,
           NEW r \in 0 .. n - 1, NEW s \in 0 .. n - 1, n * q + r = n * p + s
    PROVE  q = p /\ r = s
<1>1. ~(q < p)
  <2> SUFFICES ASSUME q < p PROVE FALSE
    OBVIOUS
  <2>1. n * (p - q) >= n
    BY SMT
  <2>2. n * (p - q) = n * p - n * q
    BY SMT
  <2> QED
    BY <2>1, <2>2, SMT
<1>2. ~(p < q)
  <2> SUFFICES ASSUME p < q PROVE FALSE
    OBVIOUS
  <2>1. n * (q - p) >= n
    BY SMT
  <2>2. n * (q - p) = n * q - n * p
    BY SMT
  <2> QED
    BY <2>1, <2>2, SMT
<1> QED
  BY <1>1, <1>2, SMT

LEMMA QuotientOf ==
    ASSUME NEW n \in Nat \ {0}, NEW q \in Int, NEW r \in 0 .. n - 1
    PROVE  (n * q + r) \div n = q /\ (n * q + r) % n = r
<1>1. n * q + r \in Int
  BY SMT
<1> QED
  BY <1>1, Division, DivisionIsUnique

-----------------------------------------------------------------------------
(***************************************************************************)
(* Lamps.                                                                  *)
(***************************************************************************)
DigitalInv ==
    /\ wiring \in [initiallyOn : BOOLEAN, activeHigh : BOOLEAN]
    /\ led \in [on : BOOLEAN, event : BOOLEAN, outputs : BOOLEAN, count : Nat]
    /\ led.on = asked
    /\ led.outputs <=> (asked = wiring.activeHigh)
    /\ (led.count % 2 = 0) <=> (asked = wiring.initiallyOn)

BiColorInv ==
    /\ wiring.topology \in Lamps!Topology /\ wiring.initialColor \in Lamps!BiColor
    /\ asked \in Lamps!BiColor
    /\ led \in [requested : Lamps!BiColor, effective : Lamps!BiColor, event : BOOLEAN,
                outputs : [a : BOOLEAN, b : BOOLEAN], count : Nat]
    /\ led.requested = asked
    /\ led.effective = Lamps!effectiveColor(asked)
    /\ led.outputs = Lamps!recalculatePins(asked)
    /\ led.count = 0 => asked = wiring.initialColor

RgbInv ==
    /\ wiring.mode \in Lamps!Mode
    /\ wiring.initialColor \in Colors /\ wiring.active \in Colors
    /\ asked \in Colors /\ led.requested = asked /\ led.count \in Nat
    /\ led.outputs = Lamps!Effective(asked, led.master)
    /\ led.count = 0 => led.outputs = Lamps!RgbReset.outputs

(***************************************************************************)
(* The consumer has written the outputs, which show what was asked; an LED *)
(* without transitions shows what a reset() would.                         *)
(***************************************************************************)
LampInv ==
    /\ kind \in {"digital", "bicolor", "rgb"}
    /\ pins = led.outputs /\ announced = led.count
    /\ kind = "digital" => DigitalInv
    /\ kind = "bicolor" => BiColorInv
    /\ kind = "rgb" => RgbInv

(***************************************************************************)
(* Full brightness and none scale a color to itself and to black.          *)
(***************************************************************************)
LEMMA ScaledByEnds ==
    ASSUME NEW color \in Colors
    PROVE  /\ Lamps!Effective(color, Full) = color
           /\ \A c \in Channel : Lamps!Effective(color, 0)[c] = 0
<1>1. Full \in Nat \ {0} /\ color \in [Channel -> 0 .. Full]
  BY PanelAssumption DEF PanelAssumption, Lamps!IlluminationAssumption
<1>2. (Full - 1) \div 2 \in 0 .. Full - 1
  BY <1>1
<1>3. ASSUME NEW c \in Channel
      PROVE  Lamps!scaleChannel(color[c], Full) = color[c]
             /\ Lamps!scaleChannel(color[c], 0) = 0
  <2>1. color[c] \in Int
    BY <1>1
  <2>2. color[c] * Full = Full * color[c] /\ color[c] * 0 = Full * 0
    BY <1>1, <2>1
  <2>3. /\ (Full * color[c] + (Full - 1) \div 2) \div Full = color[c]
        /\ (Full * 0 + (Full - 1) \div 2) \div Full = 0
    <3> DEFINE r == (Full - 1) \div 2
    <3>1. \A q \in Int : (Full * q + r) \div Full = q
      <4> HIDE DEF r
      <4>1. r \in 0 .. Full - 1
        BY <1>2 DEF r
      <4> QED
        BY <1>1, <4>1, QuotientOf
    <3> QED
      BY <2>1, <3>1
  <2> QED
    BY <2>2, <2>3 DEF Lamps!scaleChannel
<1> QED
  BY <1>1, <1>3 DEF Lamps!Effective

LEMMA LampInvShows == LampInv => PinsShowTheLed
<1> SUFFICES ASSUME LampInv PROVE PinsShowTheLed
  OBVIOUS
<1>1. CASE kind = "digital"
  <2>1. (pins = wiring.activeHigh) <=> asked
    <3>1. pins \in BOOLEAN /\ wiring.activeHigh \in BOOLEAN /\ asked \in BOOLEAN
      BY <1>1 DEF LampInv, DigitalInv
    <3>2. pins <=> (asked = wiring.activeHigh)
      BY <1>1 DEF LampInv, DigitalInv
    <3> QED
      BY <3>1, <3>2
  <2>2. (led.count % 2 = 0) <=> (asked = wiring.initiallyOn)
    BY <1>1 DEF LampInv, DigitalInv
  <2> QED
    BY <1>1, <2>1, <2>2 DEF PinsShowTheLed, Lamps!PinsShowTheLed
<1>2. CASE kind = "bicolor"
  <2>1. /\ pins = Lamps!recalculatePins(asked) /\ asked \in Lamps!BiColor
        /\ led.effective = Lamps!effectiveColor(asked)
    BY <1>2 DEF LampInv, BiColorInv
  <2>2. CASE wiring.topology = "CommonAnode"
    BY <1>2, <2>1, <2>2
    DEF Lamps!recalculatePins, Lamps!effectiveColor, Lamps!BiColor, PinsShowTheLed,
        Lamps!PinsShowTheLed
  <2>3. CASE wiring.topology = "CommonCathode"
    BY <1>2, <2>1, <2>3
    DEF Lamps!recalculatePins, Lamps!effectiveColor, Lamps!BiColor, PinsShowTheLed,
        Lamps!PinsShowTheLed
  <2>4. CASE wiring.topology = "Bipolar"
    <3>1. /\ pins.a <=> asked = "ColorA"
          /\ pins.b <=> asked = "ColorB"
      BY <2>1, <2>4 DEF Lamps!recalculatePins
    <3> QED
      BY <1>2, <2>1, <2>4, <3>1
      DEF Lamps!effectiveColor, Lamps!BiColor, PinsShowTheLed, Lamps!PinsShowTheLed
  <2> QED
    BY <1>2, <2>2, <2>3, <2>4 DEF LampInv, BiColorInv, Lamps!Topology
<1>3. CASE kind = "rgb"
  <2>1. /\ pins = led.outputs /\ asked \in Colors
        /\ led.outputs = Lamps!Effective(asked, led.master)
    BY <1>3 DEF LampInv, RgbInv
  <2> QED
    BY <1>3, <2>1, ScaledByEnds DEF PinsShowTheLed, Lamps!PinsShowTheLed
<1> QED
  BY <1>1, <1>2, <1>3 DEF LampInv

(***************************************************************************)
(* A call whose changes its result announces leaves the pins as the        *)
(* outputs.                                                                *)
(***************************************************************************)
LEMMA PinsFollow ==
    ASSUME LampInv, NEW next, NEW color, Lamps!Called(next, color),
           ~next.event /\ next.count = led.count => next.outputs = led.outputs
    PROVE  /\ led' = next /\ pins' = led'.outputs /\ announced' = led'.count
           /\ asked' = color /\ UNCHANGED <<kind, wiring>>
  BY DEF LampInv, Lamps!Called, Lamps!Announced

LEMMA DigitalStep ==
    ASSUME LampInv, Lamps!DigitalCall
    PROVE  LampInv'
<1>1. kind = "digital" /\ DigitalInv
  BY DEF Lamps!DigitalCall, LampInv
<1> USE <1>1
<1>2. CASE Lamps!Called(Lamps!DigitalReset, wiring.initiallyOn)
  <2>1. /\ Lamps!DigitalReset.count = 0 /\ ~Lamps!DigitalReset.event
        /\ Lamps!DigitalReset.on = wiring.initiallyOn
        /\ Lamps!DigitalReset.outputs = (wiring.initiallyOn = wiring.activeHigh)
        /\ Lamps!DigitalReset \in [on : BOOLEAN, event : BOOLEAN, outputs : BOOLEAN, count : Nat]
    BY DEF DigitalInv, Lamps!DigitalReset, Lamps!toRawOutputHigh
  <2>2. led.count = 0 => asked = wiring.initiallyOn
    BY DEF DigitalInv
  <2>3. led.count = 0 => Lamps!DigitalReset.outputs = led.outputs
    BY <2>1, <2>2 DEF DigitalInv
  <2>4. /\ led' = Lamps!DigitalReset /\ pins' = led'.outputs /\ announced' = led'.count
        /\ asked' = wiring.initiallyOn /\ UNCHANGED <<kind, wiring>>
    BY <1>2, <2>1, <2>3, PinsFollow
  <2>5. led'.count % 2 = 0
    BY <2>1, <2>4
  <2> QED
    BY <2>1, <2>4, <2>5 DEF LampInv, DigitalInv
<1>3. ASSUME NEW on \in BOOLEAN, Lamps!Called(Lamps!setOn(on), on) PROVE LampInv'
  <2> DEFINE next == Lamps!setOn(on)
  <2>1. CASE led.on = on
    <3>1. /\ next \in [on : BOOLEAN, event : BOOLEAN, outputs : BOOLEAN, count : Nat]
          /\ next.on = on /\ next.count = led.count /\ next.outputs = led.outputs
      BY <2>1 DEF DigitalInv, Lamps!setOn
    <3>2. /\ led' = next /\ pins' = led'.outputs /\ announced' = led'.count
          /\ asked' = on /\ UNCHANGED <<kind, wiring>>
      BY <1>3, <3>1, PinsFollow
    <3> HIDE DEF next
    <3> QED
      BY <2>1, <3>1, <3>2 DEF LampInv, DigitalInv
  <2>2. CASE led.on # on
    <3>1. /\ next \in [on : BOOLEAN, event : BOOLEAN, outputs : BOOLEAN, count : Nat]
          /\ next.on = on /\ next.event /\ next.count = led.count + 1
          /\ next.outputs <=> (on = wiring.activeHigh)
      BY <2>2 DEF DigitalInv, Lamps!setOn, Lamps!toRawOutputHigh
    <3>2. /\ led' = next /\ pins' = led'.outputs /\ announced' = led'.count
          /\ asked' = on /\ UNCHANGED <<kind, wiring>>
      BY <1>3, <3>1, PinsFollow
    <3>3. led.count \in Nat /\ led.on = asked /\ asked \in BOOLEAN
          /\ wiring.initiallyOn \in BOOLEAN
      BY DEF DigitalInv
    <3> HIDE DEF next
    <3>4. led'.count % 2 = 0 <=> ~(led.count % 2 = 0)
      BY <3>1, <3>2, <3>3
    <3>5. led'.count % 2 = 0 <=> (asked' = wiring'.initiallyOn)
      BY <2>2, <3>2, <3>3, <3>4 DEF DigitalInv
    <3> QED
      BY <3>1, <3>2, <3>5 DEF LampInv, DigitalInv
  <2> QED
    BY <2>1, <2>2
<1> QED
  BY <1>2, <1>3 DEF Lamps!DigitalCall

LEMMA BiColorStep ==
    ASSUME LampInv, Lamps!BiColorCall
    PROVE  LampInv'
<1>1. kind = "bicolor" /\ BiColorInv
  BY DEF Lamps!BiColorCall, LampInv
<1> USE <1>1
<1>2. ASSUME NEW color \in Lamps!BiColor, NEW event_ \in BOOLEAN, NEW count_ \in Nat,
             Lamps!Called(Lamps!BiColorState(color, event_, count_), color),
             ~event_ => count_ = 0 /\ color = wiring.initialColor,
             count_ = 0 => color = wiring.initialColor
      PROVE  LampInv'
  <2> DEFINE next == Lamps!BiColorState(color, event_, count_)
  <2>1. /\ next \in [requested : Lamps!BiColor, effective : Lamps!BiColor, event : BOOLEAN,
                     outputs : [a : BOOLEAN, b : BOOLEAN], count : Nat]
        /\ next.requested = color /\ next.effective = Lamps!effectiveColor(color)
        /\ next.outputs = Lamps!recalculatePins(color)
        /\ next.event = event_ /\ next.count = count_
    <3>1. Lamps!recalculatePins(color) \in [a : BOOLEAN, b : BOOLEAN]
      BY <1>2 DEF Lamps!recalculatePins, BiColorInv, Lamps!Topology
    <3>2. Lamps!effectiveColor(color) \in Lamps!BiColor
      BY <1>2 DEF Lamps!effectiveColor, Lamps!BiColor
    <3> QED
      BY <1>2, <3>1, <3>2 DEF Lamps!BiColorState
  <2>2. ~next.event /\ next.count = led.count => next.outputs = led.outputs
    BY <1>2, <2>1 DEF BiColorInv
  <2>3. /\ led' = next /\ pins' = led'.outputs /\ announced' = led'.count
        /\ asked' = color /\ UNCHANGED <<kind, wiring>>
    BY <1>2, <2>2, PinsFollow
  <2> HIDE DEF next
  <2>4. /\ Lamps!recalculatePins(color)' = Lamps!recalculatePins(color)
        /\ Lamps!effectiveColor(color)' = Lamps!effectiveColor(color)
    BY <2>3 DEF Lamps!recalculatePins, Lamps!effectiveColor
  <2>5. BiColorInv'
    BY <1>2, <2>1, <2>3, <2>4 DEF BiColorInv, Lamps!recalculatePins, Lamps!effectiveColor
  <2> QED
    BY <2>3, <2>5 DEF LampInv
<1>3. CASE Lamps!Called(Lamps!BiColorReset, wiring.initialColor)
  BY <1>2, <1>3 DEF Lamps!BiColorReset, BiColorInv
<1>4. ASSUME NEW color \in Lamps!BiColor, Lamps!Called(Lamps!setBiColor(color), color)
      PROVE  LampInv'
  <2>1. CASE led.requested = color
    <3> DEFINE next == Lamps!setBiColor(color)
    <3>1. /\ next \in [requested : Lamps!BiColor, effective : Lamps!BiColor, event : BOOLEAN,
                       outputs : [a : BOOLEAN, b : BOOLEAN], count : Nat]
          /\ next.requested = color /\ next.effective = led.effective
          /\ next.outputs = led.outputs /\ next.count = led.count
      BY <2>1 DEF BiColorInv, Lamps!setBiColor
    <3>2. /\ led' = next /\ pins' = led'.outputs /\ announced' = led'.count
          /\ asked' = color /\ UNCHANGED <<kind, wiring>>
      BY <1>4, <3>1, PinsFollow
    <3> HIDE DEF next
    <3>3. asked' = asked
      BY <2>1, <3>2 DEF BiColorInv
    <3>4. BiColorInv'
      BY <3>1, <3>2, <3>3 DEF BiColorInv, Lamps!recalculatePins, Lamps!effectiveColor
    <3> QED
      BY <3>2, <3>4 DEF LampInv
  <2>2. CASE led.requested # color
    <3>1. led.count + 1 \in Nat /\ led.count + 1 # 0
      BY DEF BiColorInv
    <3>2. Lamps!Called(Lamps!BiColorState(color, TRUE, led.count + 1), color)
      BY <1>4, <2>2 DEF Lamps!setBiColor, Lamps!Changed
    <3> QED
      BY <1>2, <1>4, <3>1, <3>2
  <2> QED
    BY <2>1, <2>2
<1> QED
  BY <1>3, <1>4 DEF Lamps!BiColorCall

(***************************************************************************)
(* What a calculation of the channels yields, from a state that shows its  *)
(* color: either the led itself or a reset one.                            *)
(***************************************************************************)
RgbState(s) ==
    /\ s.requested \in Colors /\ s.count \in Nat
    /\ s.outputs = Lamps!Effective(s.requested, s.master)
    /\ s.count = 0 => s.outputs = Lamps!RgbReset.outputs
    /\ ~s.event /\ s.count = led.count => s.outputs = led.outputs

LEMMA Recalculated ==
    ASSUME NEW s, s.count \in Nat, s.count = led.count => s.outputs = led.outputs,
           s.count = 0 => s.outputs = Lamps!RgbReset.outputs,
           NEW color \in Colors, NEW master
    PROVE  RgbState(Lamps!recalculate(s, color, master))
<1> DEFINE next == Lamps!recalculate(s, color, master)
           changed == Lamps!Effective(color, master) # s.outputs
<1>1. /\ next.requested = color /\ next.master = master /\ (next.event <=> changed)
      /\ next.outputs = Lamps!Effective(color, master)
      /\ next.count = IF changed THEN s.count + 1 ELSE s.count
  BY DEF Lamps!recalculate
<1>2. changed => next.count \in Nat /\ next.count # 0
  BY <1>1
<1>3. ~changed => next.count = s.count /\ next.outputs = s.outputs
  BY <1>1
<1>4. RgbState(next)
  <2> HIDE DEF next
  <2>1. CASE changed
    BY <1>1, <1>2, <2>1 DEF RgbState
  <2>2. CASE ~changed
    BY <1>1, <1>3, <2>2 DEF RgbState
  <2> QED
    BY <2>1, <2>2
<1> QED
  BY <1>4

LEMMA RgbCalled ==
    ASSUME LampInv, kind = "rgb", NEW next, RgbState(next),
           Lamps!Called(next, next.requested)
    PROVE  LampInv'
<1>1. RgbInv
  BY DEF LampInv
<1>2. ~next.event /\ next.count = led.count => next.outputs = led.outputs
  BY DEF RgbState
<1>3. /\ led' = next /\ pins' = led'.outputs /\ announced' = led'.count
      /\ asked' = next.requested /\ UNCHANGED <<kind, wiring>>
  BY <1>2, PinsFollow
<1>4. RgbInv'
  BY <1>1, <1>3 DEF RgbInv, RgbState, Lamps!RgbReset
<1> QED
  BY <1>3, <1>4 DEF LampInv

LEMMA RgbStep ==
    ASSUME LampInv, Lamps!RgbCall \/ Lamps!Sample
    PROVE  LampInv'
<1>1. kind = "rgb"
  BY DEF Lamps!RgbCall, Lamps!Sample
<1>2. /\ wiring.mode \in Lamps!Mode
      /\ wiring.initialColor \in Colors /\ wiring.active \in Colors
      /\ asked \in Colors /\ led.requested = asked /\ led.count \in Nat
      /\ led.outputs = Lamps!Effective(asked, led.master)
      /\ led.count = 0 => led.outputs = Lamps!RgbReset.outputs
  BY <1>1 DEF LampInv, RgbInv
<1> DEFINE Shows(s) == /\ s.count \in Nat /\ s.requested \in Colors
                       /\ s.count = led.count => s.outputs = led.outputs
                       /\ s.count = 0 => s.outputs = Lamps!RgbReset.outputs
<1>3. Shows(led) /\ RgbState(led)
  BY <1>2 DEF RgbState
<1>4. Shows(Lamps!RgbReset) /\ RgbState(Lamps!RgbReset)
  <2>1. /\ Lamps!RgbReset.requested = wiring.initialColor
        /\ Lamps!RgbReset.count = 0
        /\ Lamps!RgbReset.outputs
               = Lamps!Effective(Lamps!RgbReset.requested, Lamps!RgbReset.master)
    BY DEF Lamps!RgbReset
  <2> QED
    BY <1>2, <2>1 DEF RgbState
<1>5. ASSUME NEW s, Shows(s), NEW color \in Colors PROVE RgbState(Lamps!setColor(s, color))
  BY <1>5, Recalculated DEF Lamps!setColor
<1>6. ASSUME NEW s, Shows(s), NEW brightness
      PROVE  RgbState(Lamps!setMasterBrightness(s, brightness))
  BY <1>6, Recalculated DEF Lamps!setMasterBrightness
<1>7. ASSUME NEW color \in Colors, Lamps!Called(Lamps!setColor(led, color), color)
      PROVE  LampInv'
  <2>1. Lamps!setColor(led, color).requested = color
    BY DEF Lamps!setColor, Lamps!recalculate
  <2> QED
    BY <1>1, <1>3, <1>5, <1>7, <2>1, RgbCalled
<1>8. ASSUME NEW brightness \in 0 .. Full,
             Lamps!Called(Lamps!setMasterBrightness(led, brightness), asked)
      PROVE  LampInv'
  <2>1. Lamps!setMasterBrightness(led, brightness).requested = asked
    BY <1>2 DEF Lamps!setMasterBrightness, Lamps!recalculate
  <2> QED
    BY <1>1, <1>3, <1>6, <1>8, <2>1, RgbCalled
<1>9. CASE Lamps!Sample
  <2>1. PICK pressed_ \in BOOLEAN, position_ \in 0 .. Full, restart \in BOOLEAN :
            LET next == Lamps!Automatic(IF restart THEN Lamps!RgbReset ELSE led,
                                        pressed_, position_)
            IN  Lamps!Called(next, next.requested)
    BY <1>9 DEF Lamps!Sample
  <2> DEFINE s == IF restart THEN Lamps!RgbReset ELSE led
             next == Lamps!Automatic(s, pressed_, position_)
  <2>2. Shows(s) /\ RgbState(s)
    BY <1>3, <1>4
  <2> HIDE DEF s
  <2>3. RgbState(next)
    <3>1. CASE wiring.mode = "Manual"
      BY <2>2, <3>1 DEF Lamps!Automatic
    <3>2. CASE wiring.mode = "ButtonLit"
      <4>1. next = Lamps!setColor(s, IF pressed_ THEN wiring.active ELSE wiring.initialColor)
        BY <3>2 DEF Lamps!Automatic
      <4> QED
        BY <1>2, <1>5, <2>2, <4>1
    <3>3. CASE wiring.mode = "ButtonDark"
      <4>1. next = Lamps!setColor(s, IF pressed_ THEN wiring.initialColor ELSE wiring.active)
        BY <3>3 DEF Lamps!Automatic
      <4> QED
        BY <1>2, <1>5, <2>2, <4>1
    <3>4. CASE wiring.mode = "FaderUp"
      <4>1. next = Lamps!setMasterBrightness(s, Lamps!Travelled(position_))
        BY <3>4 DEF Lamps!Automatic
      <4> QED
        BY <1>6, <2>2, <4>1
    <3>5. CASE wiring.mode = "FaderDown"
      <4>1. next = Lamps!setMasterBrightness(s, Lamps!Travelled(Full - position_))
        BY <3>5 DEF Lamps!Automatic
      <4> QED
        BY <1>6, <2>2, <4>1
    <3> QED
      BY <1>2, <3>1, <3>2, <3>3, <3>4, <3>5 DEF Lamps!Mode
  <2>4. Lamps!Called(next, next.requested)
    BY <2>1 DEF s
  <2> QED
    BY <1>1, <2>3, <2>4, RgbCalled
<1> QED
  BY <1>7, <1>8, <1>9 DEF Lamps!RgbCall

(***************************************************************************)
(* Whatever is asked of an LED, and however it is reset, its consumer      *)
(* lights it so, for every wiring, color and brightness.                   *)
(***************************************************************************)
THEOREM LampsShowWhatWasAsked == PanelSpec => []PinsShowTheLed
<1>1. PanelInit => LampInv
  <2> SUFFICES ASSUME PanelInit PROVE LampInv
    OBVIOUS
  <2>1. Lamps!LedInit
    BY DEF PanelInit, Start
  <2>2. CASE kind = "digital"
    <3>1. /\ wiring \in [initiallyOn : BOOLEAN, activeHigh : BOOLEAN]
          /\ led = Lamps!DigitalReset /\ asked = wiring.initiallyOn
          /\ pins = led.outputs /\ announced = 0
      BY <2>1, <2>2 DEF Lamps!LedInit
    <3>2. /\ led \in [on : BOOLEAN, event : BOOLEAN, outputs : BOOLEAN, count : Nat]
          /\ led.on = wiring.initiallyOn /\ led.count = 0
          /\ led.outputs <=> (wiring.initiallyOn = wiring.activeHigh)
      BY <3>1 DEF Lamps!DigitalReset, Lamps!toRawOutputHigh
    <3>3. led.count % 2 = 0
      BY <3>2
    <3> QED
      BY <2>2, <3>1, <3>2, <3>3 DEF LampInv, DigitalInv
  <2>3. CASE kind = "bicolor"
    <3>1. /\ wiring \in [topology : Lamps!Topology, initialColor : Lamps!BiColor]
          /\ led = Lamps!BiColorReset /\ asked = wiring.initialColor
          /\ pins = led.outputs /\ announced = 0
      BY <2>1, <2>3 DEF Lamps!LedInit
    <3>2. /\ Lamps!recalculatePins(asked) \in [a : BOOLEAN, b : BOOLEAN]
          /\ Lamps!effectiveColor(asked) \in Lamps!BiColor
      BY <3>1
      DEF Lamps!recalculatePins, Lamps!effectiveColor, Lamps!Topology, Lamps!BiColor
    <3> QED
      BY <2>3, <3>1, <3>2
      DEF LampInv, BiColorInv, Lamps!BiColorReset, Lamps!BiColorState
  <2>4. CASE kind = "rgb"
    <3>1. /\ wiring.mode \in Lamps!Mode
          /\ wiring.initialColor \in Colors /\ wiring.active \in Colors
          /\ led = Lamps!RgbReset /\ asked = wiring.initialColor
          /\ pins = led.outputs /\ announced = 0
      BY <2>1, <2>4 DEF Lamps!LedInit
    <3> QED
      BY <2>4, <3>1 DEF LampInv, RgbInv, Lamps!RgbReset
  <2> QED
    BY <2>1, <2>2, <2>3, <2>4 DEF Lamps!LedInit
<1>2. LampInv /\ [PanelNext]_panelVars => LampInv'
  <2> SUFFICES ASSUME LampInv, [PanelNext]_panelVars PROVE LampInv'
    OBVIOUS
  <2>1. CASE Lamps!LedNext
    BY <2>1, DigitalStep, BiColorStep, RgbStep DEF Lamps!LedNext
  <2>2. CASE UNCHANGED lamps
    <3>1. UNCHANGED <<kind, wiring, led, pins, announced, asked>>
      BY <2>2 DEF lamps
    <3>2. DigitalInv' = DigitalInv
      BY <3>1 DEF DigitalInv
    <3>3. BiColorInv' = BiColorInv
      BY <3>1 DEF BiColorInv, Lamps!effectiveColor, Lamps!recalculatePins
    <3>4. RgbInv' = RgbInv
      BY <3>1 DEF RgbInv, Lamps!RgbReset
    <3> QED
      BY <3>1, <3>2, <3>3, <3>4 DEF LampInv
  <2> QED
    BY <2>1, <2>2, SignalSteps
<1> QED
  BY <1>1, <1>2, LampInvShows, PTL DEF PanelSpec

-----------------------------------------------------------------------------
(***************************************************************************)
(* The button ladder.                                                      *)
(***************************************************************************)

(***************************************************************************)
(* The age of a moment before now, modulo a period, grows with the clock.  *)
(***************************************************************************)
LEMMA AgeGrows ==
    ASSUME NEW n \in Nat \ {0}, NEW t \in Int, NEW since \in Int, NEW g \in Nat,
           ((t - since) % n) + g < n
    PROVE  (((t + g) % n) - since) % n = ((t - since) % n) + g
<1> DEFINE q == (t + g) \div n
           u == (t + g) % n
           p == (t - since) \div n
           v == (t - since) % n
<1>1. q \in Int /\ u \in 0 .. n - 1 /\ t + g = n * q + u
  BY Division
<1>2. p \in Int /\ v \in 0 .. n - 1 /\ t - since = n * p + v
  BY Division
<1>3. v + g \in 0 .. n - 1
  BY <1>2
<1> HIDE DEF q, u, p, v
<1>4. u - since = n * p - n * q + v + g
  BY <1>1, <1>2
<1>5. n * p - n * q = n * (p - q) /\ p - q \in Int
  BY <1>1, <1>2
<1>6. u - since = n * (p - q) + (v + g)
  BY <1>1, <1>2, <1>4, <1>5
<1>7. \A m \in Int, r \in 0 .. n - 1 : (n * m + r) % n = r
  BY QuotientOf
<1>8. (n * (p - q) + (v + g)) % n = v + g
  BY <1>3, <1>5, <1>7
<1>9. (u - since) % n = v + g
  BY <1>6, <1>8
<1> QED
  BY <1>9 DEF u, v

LEMMA ModularAge ==
    ASSUME NEW n \in Nat \ {0}, NEW t \in Int, NEW since \in Int, NEW g \in Nat
    PROVE  /\ (t + g) % n \in 0 .. n - 1
           /\ (t - since) % n \in 0 .. n - 1
           /\ (t - t) % n = 0
           /\ ((t - since) % n) + g < n =>
                  (((t + g) % n) - since) % n = ((t - since) % n) + g
<1>1. (t + g) % n \in 0 .. n - 1 /\ (t - since) % n \in 0 .. n - 1
  BY Division
<1>2. (t - t) % n = 0
  <2>1. (n * 0 + 0) % n = 0
    BY QuotientOf
  <2>2. n * 0 + 0 = t - t
    OBVIOUS
  <2> QED
    BY <2>1, <2>2
<1>3. ASSUME ((t - since) % n) + g < n
      PROVE  (((t + g) % n) - since) % n = ((t - since) % n) + g
  BY <1>3, AgeGrows
<1> QED
  BY <1>1, <1>2, <1>3

LEMMA LadderClock ==
    ASSUME NEW t \in Buttons!Time, NEW since \in Buttons!Time, NEW g \in 0 .. MaxLadderGap
    PROVE  /\ Buttons!Later(t, g) \in Buttons!Time
           /\ Buttons!Elapsed(t, since) \in Buttons!Time
           /\ Buttons!Elapsed(t, t) = 0
           /\ Buttons!Elapsed(t, since) + g < TimeModulus =>
                  Buttons!Elapsed(Buttons!Later(t, g), since) = Buttons!Elapsed(t, since) + g
<1>1. TimeModulus \in Nat \ {0} /\ MaxLadderGap \in Nat
  BY PanelAssumption DEF PanelAssumption, Buttons!LadderAssumption
<1>2. t \in Int /\ since \in Int /\ g \in Nat
  BY <1>1 DEF Buttons!Time
<1> QED
  BY <1>1, <1>2, ModularAge DEF Buttons!Later, Buttons!Elapsed, Buttons!Time

(***************************************************************************)
(* What a sample may be decoded to, whatever the nearest button is.        *)
(***************************************************************************)
Decodings == {Buttons!Open} \cup {Buttons!Decoded(raw) : raw \in 0 .. MaxCode}
LadderObject ==
    [initialized : BOOLEAN, candidate : Decodings, candidateSinceMs : Buttons!Time,
     pressedIndex : Decodings, justPressedIndex : Decodings,
     justReleasedIndex : Decodings, validSample : BOOLEAN]

(***************************************************************************)
(* The candidate is what the valid samples have last agreed on, as old as  *)
(* they are, and never a whole period while it waits.                      *)
(***************************************************************************)
LadderInv ==
    /\ ladder \in LadderObject
    /\ age \in 0 .. TimeModulus
    /\ IF component = "ladder" THEN now \in Buttons!Time ELSE ~ladder.initialized
    /\ paired = TRUE
    /\ ladder.initialized =>
           /\ seen = ladder.candidate
           /\ age < TimeModulus => Buttons!Elapsed(now, ladder.candidateSinceMs) = age
           /\ ladder.candidate # ladder.pressedIndex => age < TimeModulus
    /\ LadderEventsAreTrue

LEMMA LadderRestarted ==
    ASSUME LadderInv, component = "ladder", component' = component,
           NEW raw \in 0 .. MaxCode, now' \in Buttons!Time,
           ladder' = Buttons!Fresh(raw, now'), Buttons!Restarted(raw)
    PROVE  LadderInv'
<1>1. TimeModulus \in Nat \ {0} /\ stableTimeMs \in Nat /\ 0 \in 0 .. MaxLadderGap
  BY PanelAssumption DEF PanelAssumption, Buttons!LadderAssumption
<1>2. /\ ladder' \in LadderObject /\ ladder'.initialized
      /\ ladder'.candidate = Buttons!Decoded(raw)
      /\ ladder'.pressedIndex = Buttons!Decoded(raw)
      /\ ladder'.candidateSinceMs = now'
      /\ ladder'.justPressedIndex = Buttons!Open
      /\ ladder'.justReleasedIndex = Buttons!Open
  BY DEF Buttons!Fresh, LadderObject, Decodings, Buttons!IsValid
<1>3. /\ noted' = ladder'.pressedIndex /\ paired' = paired
      /\ seen' = Buttons!Decoded(raw) /\ age' = 0
  BY DEF Buttons!Restarted
<1>4. Buttons!Elapsed(now', now') = 0
  BY <1>1, LadderClock
<1> QED
  BY <1>1, <1>2, <1>3, <1>4
  DEF LadderInv, LadderEventsAreTrue, Buttons!LadderEventsAreTrue

LEMMA LadderSampled ==
    ASSUME stableTimeMs > 0, LadderInv, component = "ladder", component' = component,
           NEW raw \in 0 .. MaxCode, NEW g \in 0 .. MaxLadderGap,
           Buttons!update(raw, g), ladder.initialized
    PROVE  LadderInv'
<1>1. /\ TimeModulus \in Nat \ {0} /\ stableTimeMs \in Nat /\ MaxLadderGap \in Nat
      /\ g \in Nat
  BY PanelAssumption DEF PanelAssumption, Buttons!LadderAssumption
<1>2. /\ ladder \in LadderObject /\ age \in 0 .. TimeModulus /\ now \in Buttons!Time
      /\ seen = ladder.candidate
      /\ age < TimeModulus => Buttons!Elapsed(now, ladder.candidateSinceMs) = age
      /\ noted = ladder.pressedIndex /\ paired = TRUE
  BY DEF LadderInv, LadderEventsAreTrue, Buttons!LadderEventsAreTrue
<1>3. /\ Buttons!WithinOnePeriod(g) /\ now' = Buttons!Later(now, g)
      /\ ladder' = Buttons!Sampled(raw, now')
      /\ noted' = (IF Buttons!Reported THEN ladder'.justPressedIndex ELSE noted)
      /\ paired' = (paired /\ (Buttons!Reported => ladder'.justReleasedIndex = noted))
      /\ seen' = (IF Buttons!IsValid(raw) THEN Buttons!Decoded(raw) ELSE seen)
      /\ age' = (IF Buttons!IsValid(raw) /\ Buttons!Decoded(raw) # seen THEN 0
                 ELSE Buttons!Aged(g))
  BY DEF Buttons!update
<1>4. now' \in Buttons!Time
  BY <1>1, <1>2, <1>3, LadderClock
<1>5. ladder.candidateSinceMs \in Buttons!Time
  BY <1>2 DEF LadderObject
<1>6. Buttons!Aged(g) \in 0 .. TimeModulus
      /\ (Buttons!Aged(g) < TimeModulus =>
              Buttons!Aged(g) = age + g
              /\ Buttons!Elapsed(now', ladder.candidateSinceMs) = age + g)
  <2>1. CASE age + g < TimeModulus
    <3>1. Buttons!Aged(g) = age + g
      BY <1>1, <1>2, <2>1 DEF Buttons!Aged
    <3>2. age < TimeModulus
      BY <1>1, <1>2, <2>1
    <3>3. Buttons!Elapsed(now', ladder.candidateSinceMs) = age + g
      BY <1>2, <1>3, <1>5, <2>1, <3>2, LadderClock
    <3> QED
      BY <1>1, <1>2, <2>1, <3>1, <3>3
  <2>2. CASE ~(age + g < TimeModulus)
    BY <1>1, <1>2, <2>2 DEF Buttons!Aged
  <2> QED
    BY <2>1, <2>2
<1>7. ladder.candidate # ladder.pressedIndex =>
          /\ Buttons!Aged(g) = age + g /\ age + g < TimeModulus
          /\ Buttons!Elapsed(now', ladder.candidateSinceMs) = age + g
  <2>1. SUFFICES ASSUME ladder.candidate # ladder.pressedIndex
                 PROVE  Buttons!Aged(g) = age + g /\ age + g < TimeModulus
    BY <1>6
  <2>2. age + g < TimeModulus
    BY <1>3, <2>1 DEF Buttons!WithinOnePeriod
  <2> QED
    BY <1>1, <1>2, <2>2 DEF Buttons!Aged
<1>8. /\ Buttons!Quiet(raw) \in LadderObject
      /\ Buttons!Quiet(raw).initialized
      /\ Buttons!Quiet(raw).candidate = ladder.candidate
      /\ Buttons!Quiet(raw).candidateSinceMs = ladder.candidateSinceMs
      /\ Buttons!Quiet(raw).pressedIndex = ladder.pressedIndex
      /\ Buttons!Quiet(raw).justPressedIndex = Buttons!Open
      /\ Buttons!Quiet(raw).justReleasedIndex = Buttons!Open
      /\ Buttons!Quiet(raw).validSample <=> Buttons!IsValid(raw)
  BY <1>2 DEF Buttons!Quiet, LadderObject, Decodings, Buttons!IsValid
<1>9. CASE ~Buttons!IsValid(raw)
  <2>1. ladder' = Buttons!Quiet(raw)
    BY <1>3, <1>9 DEF Buttons!Sampled
  <2>2. ~Buttons!Reported
    BY <1>8, <2>1 DEF Buttons!Reported
  <2>3. /\ ladder' \in LadderObject /\ ladder'.initialized
        /\ ladder'.candidate = ladder.candidate
        /\ ladder'.candidateSinceMs = ladder.candidateSinceMs
        /\ ladder'.pressedIndex = ladder.pressedIndex
        /\ ladder'.justPressedIndex = Buttons!Open
        /\ ladder'.justReleasedIndex = Buttons!Open /\ ~ladder'.validSample
    BY <1>8, <1>9, <2>1
  <2>4. /\ noted' = noted /\ paired' = TRUE /\ seen' = seen /\ age' = Buttons!Aged(g)
    BY <1>2, <1>3, <1>9, <2>2
  <2> QED
    BY <1>2, <1>4, <1>6, <1>7, <2>3, <2>4
    DEF LadderInv, LadderEventsAreTrue, Buttons!LadderEventsAreTrue
<1>10. CASE Buttons!IsValid(raw) /\ Buttons!IsNewCandidate(raw)
  <2>1. ladder' = [Buttons!Quiet(raw) EXCEPT !.candidate = Buttons!Decoded(raw),
                                             !.candidateSinceMs = now']
    BY <1>3, <1>10 DEF Buttons!Sampled
  <2>2. /\ ladder' \in LadderObject /\ ladder'.initialized
        /\ ladder'.candidate = Buttons!Decoded(raw)
        /\ ladder'.candidateSinceMs = now'
        /\ ladder'.pressedIndex = ladder.pressedIndex
        /\ ladder'.justPressedIndex = Buttons!Open
        /\ ladder'.justReleasedIndex = Buttons!Open
    BY <1>4, <1>8, <2>1 DEF LadderObject, Decodings
  <2>3. ~Buttons!Reported
    BY <2>2 DEF Buttons!Reported
  <2>4. /\ noted' = noted /\ paired' = TRUE /\ age' = 0
        /\ seen' = Buttons!Decoded(raw)
    BY <1>2, <1>3, <1>10, <2>3 DEF Buttons!IsNewCandidate
  <2>5. Buttons!Elapsed(now', now') = 0
    BY <1>1, <1>4, LadderClock
  <2> QED
    BY <1>1, <1>2, <1>4, <2>2, <2>4, <2>5
    DEF LadderInv, LadderEventsAreTrue, Buttons!LadderEventsAreTrue
<1>11. CASE Buttons!IsValid(raw) /\ ~Buttons!IsNewCandidate(raw)
  <2>1. Buttons!Decoded(raw) = ladder.candidate
    BY <1>11 DEF Buttons!IsNewCandidate
  <2>2. seen' = ladder.candidate /\ age' = Buttons!Aged(g)
    BY <1>2, <1>3, <1>11, <2>1
  <2>3. CASE Buttons!IsStable(raw, now')
    <3>1. ladder' = Buttons!Committed(raw)
      BY <1>3, <1>11, <2>3 DEF Buttons!Sampled
    <3>2. /\ ladder.candidate # ladder.pressedIndex
          /\ Buttons!Elapsed(now', ladder.candidateSinceMs) >= stableTimeMs
      BY <2>1, <2>3 DEF Buttons!IsStable
    <3>3. /\ ladder' \in LadderObject /\ ladder'.initialized
          /\ ladder'.candidate = ladder.candidate
          /\ ladder'.candidateSinceMs = ladder.candidateSinceMs
          /\ ladder'.pressedIndex = ladder.candidate
          /\ ladder'.justPressedIndex = ladder.candidate
          /\ ladder'.justReleasedIndex = ladder.pressedIndex
      BY <1>2, <1>8, <2>1, <3>1 DEF Buttons!Committed, LadderObject
    <3>4. Buttons!Reported
      BY <3>2, <3>3 DEF Buttons!Reported
    <3>5. noted' = ladder.candidate /\ paired' = TRUE
      BY <1>2, <1>3, <3>3, <3>4
    <3>6. age' = age + g /\ age' >= stableTimeMs /\ age' < TimeModulus
          /\ Buttons!Elapsed(now', ladder'.candidateSinceMs) = age'
      BY <1>7, <2>2, <3>2, <3>3
    <3> QED
      BY <1>4, <1>6, <2>2, <3>3, <3>5, <3>6
      DEF LadderInv, LadderEventsAreTrue, Buttons!LadderEventsAreTrue
  <2>4. CASE ~Buttons!IsStable(raw, now')
    <3>1. ladder' = Buttons!Quiet(raw)
      BY <1>3, <1>11, <2>4 DEF Buttons!Sampled
    <3>2. ~Buttons!Reported
      BY <1>8, <3>1 DEF Buttons!Reported
    <3>3. /\ ladder' \in LadderObject /\ ladder'.initialized
          /\ ladder'.candidate = ladder.candidate
          /\ ladder'.candidateSinceMs = ladder.candidateSinceMs
          /\ ladder'.pressedIndex = ladder.pressedIndex
          /\ ladder'.justPressedIndex = Buttons!Open
          /\ ladder'.justReleasedIndex = Buttons!Open
      BY <1>8, <3>1
    <3>4. noted' = noted /\ paired' = TRUE
      BY <1>2, <1>3, <3>2
    <3>5. ladder.candidate # ladder.pressedIndex => age' < stableTimeMs /\ age' < TimeModulus
      <4>1. ladder.candidate # ladder.pressedIndex =>
                ~(Buttons!Elapsed(now', ladder.candidateSinceMs) >= stableTimeMs)
        BY <2>1, <2>4 DEF Buttons!IsStable
      <4> QED
        BY <1>1, <1>2, <1>7, <2>2, <4>1
    <3> QED
      BY <1>2, <1>4, <1>6, <2>2, <3>3, <3>4, <3>5
      DEF LadderInv, LadderEventsAreTrue, Buttons!LadderEventsAreTrue
  <2> QED
    BY <2>3, <2>4
<1> QED
  BY <1>9, <1>10, <1>11

(***************************************************************************)
(* The events of a ladder are stable, paired and complete, for every       *)
(* number of buttons and every resistor network.  Without a stable time a  *)
(* change is still reported only by the second call that sees it.          *)
(***************************************************************************)
THEOREM LadderTellsTheTruth ==
    ASSUME stableTimeMs > 0
    PROVE  PanelSpec => []LadderEventsAreTrue
<1>1. PanelInit => LadderInv
  <2> SUFFICES ASSUME PanelInit PROVE LadderInv
    OBVIOUS
  <2>1. TimeModulus \in Nat \ {0}
    BY PanelAssumption DEF PanelAssumption, Buttons!LadderAssumption
  <2>2. /\ now \in Buttons!Time /\ age = 0 /\ paired = TRUE
        /\ ladder = [initialized |-> FALSE, candidate |-> Buttons!Open,
                     candidateSinceMs |-> 0, pressedIndex |-> Buttons!Open,
                     justPressedIndex |-> Buttons!Open,
                     justReleasedIndex |-> Buttons!Open, validSample |-> TRUE]
    BY DEF PanelInit, Buttons!LadderInit
  <2>3. ladder \in LadderObject /\ ~ladder.initialized
    BY <2>1, <2>2 DEF LadderObject, Decodings, Buttons!Time
  <2> QED
    BY <2>1, <2>2, <2>3 DEF LadderInv, LadderEventsAreTrue, Buttons!LadderEventsAreTrue
<1>2. LadderInv /\ [PanelNext]_panelVars => LadderInv'
  <2> SUFFICES ASSUME LadderInv, [PanelNext]_panelVars PROVE LadderInv'
    OBVIOUS
  <2>1. CASE component = "ladder" /\ Buttons!LadderNext
    <3>1. component' = component
      BY DialSteps
    <3>2. PICK raw \in 0 .. MaxCode, g \in 0 .. MaxLadderGap :
              Buttons!reset(raw, g) \/ Buttons!update(raw, g)
      BY <2>1 DEF Buttons!LadderNext
    <3>3. now \in Buttons!Time
      BY <2>1 DEF LadderInv
    <3>4. Buttons!Later(now, g) \in Buttons!Time
      BY <3>3, LadderClock
    <3>5. CASE Buttons!reset(raw, g)
      BY <2>1, <3>1, <3>4, <3>5, LadderRestarted DEF Buttons!reset
    <3>6. CASE Buttons!update(raw, g) /\ ~ladder.initialized
      <4>1. /\ now' \in Buttons!Time /\ Buttons!Restarted(raw)
            /\ ladder' = Buttons!Fresh(raw, now')
        BY <3>4, <3>6 DEF Buttons!update, Buttons!Sampled
      <4> QED
        BY <2>1, <3>1, <4>1, LadderRestarted
    <3>7. CASE Buttons!update(raw, g) /\ ladder.initialized
      BY <2>1, <3>1, <3>7, LadderSampled
    <3> QED
      BY <3>2, <3>5, <3>6, <3>7
  <2>2. CASE UNCHANGED ladders /\ (component = "ladder" => UNCHANGED now)
    BY <2>2, DialSteps
    DEF ladders, LadderInv, LadderEventsAreTrue, Buttons!LadderEventsAreTrue
  <2> QED
    BY <2>1, <2>2, DialSteps
<1>3. LadderInv => LadderEventsAreTrue
  BY DEF LadderInv
<1> QED
  BY <1>1, <1>2, <1>3, PTL DEF PanelSpec

-----------------------------------------------------------------------------
(***************************************************************************)
(* The press classifier.                                                   *)
(***************************************************************************)
AgeAt(t, since) == (t - since) % TimeModulus

(***************************************************************************)
(* What the classifier can tell from its three moments.  The time since    *)
(* the last press it may underestimate, after a whole period; the time     *)
(* since the click it waits with is exact, and so is the time since the    *)
(* last LongPress or Repeat as long as the next Repeat is not due.         *)
(***************************************************************************)
GestureTypes ==
    /\ pressed \in BOOLEAN /\ longEmitted \in BOOLEAN /\ pendingShort \in BOOLEAN
    /\ pressedAt \in Presses!Time /\ releasedAt \in Presses!Time
    /\ nextRepeatAt \in Presses!Time
    /\ hold \in 0 .. Presses!HoldCap
    /\ gap \in 0 .. TimeModulus
    /\ sinceLong \in 0 .. RepeatIntervalMs
    /\ unreported \in Nat

GestureAges ==
    /\ now \in Presses!Time
    /\ hold < Presses!HoldCap => AgeAt(now, pressedAt) <= hold
    /\ pendingShort => gap < TimeModulus /\ AgeAt(now, releasedAt) = gap
    /\ longEmitted /\ sinceLong < RepeatIntervalMs =>
           AgeAt(now, nextRepeatAt - RepeatIntervalMs) = sinceLong

GestureInv ==
    /\ GestureTypes
    /\ component = "presses" => GestureAges
    /\ GesturesAreTrue

LEMMA GestureConstants ==
    /\ TimeModulus \in Nat \ {0} /\ MaxPressGap \in Nat
    /\ LongPressMs \in Nat /\ DoublePressMs \in Nat
    /\ RepeatDelayMs \in Nat /\ RepeatIntervalMs \in Nat
    /\ LongPressMs <= TimeModulus
    /\ Presses!HoldCap \in Nat \ {0} /\ LongPressMs <= Presses!HoldCap
BY PanelAssumption
DEF PanelAssumption, Presses!ClassifierAssumption, Presses!HoldCap, Presses!Capped

LEMMA GestureClock ==
    ASSUME NEW t \in Presses!Time, NEW since \in Int, NEW d \in 0 .. MaxPressGap
    PROVE  /\ Presses!Later(t, d) \in Presses!Time
           /\ AgeAt(t, since) \in Presses!Time
           /\ AgeAt(t, t) = 0
           /\ AgeAt(Presses!Later(t, d), since) \in Presses!Time
           /\ AgeAt(t, since) + d < TimeModulus =>
                  AgeAt(Presses!Later(t, d), since) = AgeAt(t, since) + d
           /\ AgeAt(Presses!Later(t, d), since) <= AgeAt(t, since) + d
<1>1. TimeModulus \in Nat \ {0} /\ MaxPressGap \in Nat
  BY GestureConstants
<1>2. t \in Int /\ d \in Nat
  BY <1>1 DEF Presses!Time
<1>3. Presses!Later(t, d) \in Presses!Time
  BY <1>1, <1>2, ModularAge DEF Presses!Later, Presses!Time
<1>4. Presses!Later(t, d) \in Int
  BY <1>1, <1>3 DEF Presses!Time
<1>5. AgeAt(t, since) \in 0 .. TimeModulus - 1 /\ AgeAt(t, t) = 0
  BY <1>1, <1>2, ModularAge DEF AgeAt
<1>6. AgeAt(Presses!Later(t, d), since) \in 0 .. TimeModulus - 1
  BY <1>1, <1>4, ModularAge DEF AgeAt
<1>7. AgeAt(t, since) + d < TimeModulus =>
          AgeAt(Presses!Later(t, d), since) = AgeAt(t, since) + d
  <2>1. ASSUME ((t - since) % TimeModulus) + d < TimeModulus
        PROVE  (((t + d) % TimeModulus) - since) % TimeModulus = ((t - since) % TimeModulus) + d
    BY <1>1, <1>2, <2>1, AgeGrows
  <2> QED
    BY <2>1 DEF AgeAt, Presses!Later
<1>8. AgeAt(Presses!Later(t, d), since) <= AgeAt(t, since) + d
  BY <1>1, <1>2, <1>5, <1>6, <1>7
<1> QED
  BY <1>3, <1>5, <1>6, <1>7, <1>8 DEF Presses!Time

(***************************************************************************)
(* A repeat deadline set now is RepeatIntervalMs ahead, and the signed     *)
(* comparison does not call it reached before that time has passed: the    *)
(* interval is at most half of the clock's period.                         *)
(***************************************************************************)
LEMMA DeadlineIsAhead ==
    ASSUME 2 * RepeatIntervalMs <= TimeModulus, NEW t \in Presses!Time
    PROVE  /\ Presses!Later(t, RepeatIntervalMs) \in Presses!Time
           /\ AgeAt(t, Presses!Later(t, RepeatIntervalMs) - RepeatIntervalMs) = 0
           /\ \A next \in Presses!Time :
                  AgeAt(t, next - RepeatIntervalMs) < RepeatIntervalMs =>
                      ~(AgeAt(t, next) < TimeModulus \div 2)
<1>1. TimeModulus \in Nat \ {0} /\ RepeatIntervalMs \in Nat /\ t \in Int
  BY GestureConstants DEF Presses!Time
<1> DEFINE n == TimeModulus
           i == RepeatIntervalMs
           q == (t + i) \div n
           u == (t + i) % n
<1>2. q \in Int /\ u \in 0 .. n - 1 /\ t + i = n * q + u
  <2>1. t + i \in Int
    BY <1>1
  <2> QED
    BY <1>1, <2>1, Division
<1>3. \A m \in Int, r \in 0 .. n - 1 : (n * m + r) % n = r
  BY <1>1, QuotientOf
<1>4. (t - (u - i)) % n = 0
  <2>1. (n * q + 0) % n = 0
    BY <1>1, <1>2, <1>3
  <2> HIDE DEF q, u
  <2>2. t - (u - i) = n * q + 0
    BY <1>1, <1>2
  <2> QED
    BY <2>1, <2>2
<1>5. ASSUME NEW next \in Presses!Time, (t - (next - i)) % n < i
      PROVE  ~((t - next) % n < n \div 2)
  <2> DEFINE p == (t - (next - i)) \div n
             v == (t - (next - i)) % n
  <2>1. next \in Int
    BY <1>1 DEF Presses!Time
  <2>2. p \in Int /\ v \in 0 .. n - 1 /\ t - (next - i) = n * p + v
    <3>1. t - (next - i) \in Int
      BY <1>1, <2>1
    <3> QED
      BY <1>1, <3>1, Division
  <2>3. v < i
    BY <1>5
  <2>4. n - i + v \in 0 .. n - 1 /\ n - i + v >= n \div 2
    BY <1>1, <2>2, <2>3
  <2> HIDE DEF p, v
  <2>5. n * p - n = n * (p - 1) /\ p - 1 \in Int
    BY <1>1, <2>2
  <2>6. t - next = n * (p - 1) + (n - i + v)
    BY <1>1, <2>1, <2>2, <2>5
  <2>7. (n * (p - 1) + (n - i + v)) % n = n - i + v
    BY <1>3, <2>4, <2>5
  <2>8. (t - next) % n = n - i + v
    BY <2>6, <2>7
  <2>9. n \div 2 \in Int /\ (t - next) % n \in Int
    BY <1>1, <2>4, <2>8
  <2> QED
    BY <2>4, <2>8, <2>9
<1> QED
  BY <1>1, <1>2, <1>4, <1>5 DEF AgeAt, Presses!Later, Presses!Time

(***************************************************************************)
(* The ages at the end of a call, from those at its start.                 *)
(***************************************************************************)
LEMMA GesturesAge ==
    ASSUME GestureInv, component = "presses",
           NEW d \in 0 .. MaxPressGap, now' = Presses!Later(now, d)
    PROVE  /\ now' \in Presses!Time /\ AgeAt(now', now') = 0
           /\ AgeAt(now', pressedAt) \in Presses!Time
           /\ AgeAt(now', releasedAt) \in Presses!Time
           /\ Presses!HoldNow(d) \in 0 .. Presses!HoldCap
           /\ Presses!HoldNow(d) < Presses!HoldCap =>
                  AgeAt(now', pressedAt) <= Presses!HoldNow(d)
           /\ Presses!GapNow(d) \in 0 .. TimeModulus
           /\ pendingShort /\ Presses!WithinOnePeriod(d) =>
                  /\ Presses!GapNow(d) < TimeModulus
                  /\ AgeAt(now', releasedAt) = Presses!GapNow(d)
           /\ Presses!SinceLongNow(d) \in 0 .. RepeatIntervalMs
           /\ 2 * RepeatIntervalMs <= TimeModulus
                  /\ longEmitted /\ Presses!SinceLongNow(d) < RepeatIntervalMs =>
                  AgeAt(now', nextRepeatAt - RepeatIntervalMs) = Presses!SinceLongNow(d)
<1>1. /\ TimeModulus \in Nat \ {0} /\ RepeatIntervalMs \in Nat
      /\ Presses!HoldCap \in Nat \ {0} /\ d \in Nat
  BY GestureConstants
<1>2. /\ now \in Presses!Time
      /\ pressedAt \in Int /\ releasedAt \in Int /\ nextRepeatAt - RepeatIntervalMs \in Int
      /\ hold \in 0 .. Presses!HoldCap /\ gap \in 0 .. TimeModulus
      /\ sinceLong \in 0 .. RepeatIntervalMs
  BY <1>1 DEF GestureInv, GestureTypes, GestureAges, Presses!Time
<1>3. now' \in Presses!Time
  BY <1>2, GestureClock
<1>4. AgeAt(now', now') = 0
  BY <1>1, <1>3, GestureClock
<1>5. /\ AgeAt(now', pressedAt) \in Presses!Time
      /\ AgeAt(now, pressedAt) \in Presses!Time
      /\ AgeAt(now', pressedAt) <= AgeAt(now, pressedAt) + d
  BY <1>2, GestureClock
<1>6. /\ AgeAt(now', releasedAt) \in Presses!Time
      /\ AgeAt(now, releasedAt) + d < TimeModulus =>
             AgeAt(now', releasedAt) = AgeAt(now, releasedAt) + d
  BY <1>2, GestureClock
<1>7. AgeAt(now, nextRepeatAt - RepeatIntervalMs) + d < TimeModulus =>
          AgeAt(now', nextRepeatAt - RepeatIntervalMs)
              = AgeAt(now, nextRepeatAt - RepeatIntervalMs) + d
  BY <1>2, GestureClock
<1>8. /\ Presses!HoldNow(d) \in 0 .. Presses!HoldCap
      /\ Presses!HoldNow(d) < Presses!HoldCap =>
             hold < Presses!HoldCap /\ Presses!HoldNow(d) = hold + d
  BY <1>1, <1>2 DEF Presses!HoldNow, Presses!Capped
<1>9. hold < Presses!HoldCap => AgeAt(now, pressedAt) <= hold
  BY DEF GestureInv, GestureAges
<1>10. Presses!HoldNow(d) < Presses!HoldCap =>
           AgeAt(now', pressedAt) <= Presses!HoldNow(d)
  BY <1>1, <1>2, <1>5, <1>8, <1>9 DEF Presses!Time
<1>11. Presses!GapNow(d) \in 0 .. TimeModulus
  BY <1>1, <1>2 DEF Presses!GapNow, Presses!Capped
<1>12. ASSUME pendingShort, Presses!WithinOnePeriod(d)
       PROVE  /\ Presses!GapNow(d) < TimeModulus
              /\ AgeAt(now', releasedAt) = Presses!GapNow(d)
  <2>1. gap + d < TimeModulus /\ AgeAt(now, releasedAt) = gap
    BY <1>12 DEF GestureInv, GestureAges, Presses!WithinOnePeriod
  <2>2. Presses!GapNow(d) = gap + d
    BY <1>1, <1>2, <2>1 DEF Presses!GapNow, Presses!Capped
  <2> QED
    BY <1>6, <2>1, <2>2
<1>13. Presses!SinceLongNow(d) \in 0 .. RepeatIntervalMs
  BY <1>1, <1>2 DEF Presses!SinceLongNow, Presses!Capped
<1>14. ASSUME 2 * RepeatIntervalMs <= TimeModulus, longEmitted,
              Presses!SinceLongNow(d) < RepeatIntervalMs
       PROVE  AgeAt(now', nextRepeatAt - RepeatIntervalMs) = Presses!SinceLongNow(d)
  <2>1. /\ Presses!SinceLongNow(d) = sinceLong + d
        /\ sinceLong < RepeatIntervalMs /\ sinceLong + d < TimeModulus
    BY <1>1, <1>2, <1>14 DEF Presses!SinceLongNow, Presses!Capped
  <2>2. AgeAt(now, nextRepeatAt - RepeatIntervalMs) = sinceLong
    BY <1>14, <2>1 DEF GestureInv, GestureAges
  <2> QED
    BY <1>7, <2>1, <2>2
<1> QED
  BY <1>3, <1>4, <1>5, <1>6, <1>8, <1>10, <1>11, <1>12, <1>13, <1>14

(***************************************************************************)
(* Every call keeps the invariant.                                         *)
(***************************************************************************)
LEMMA GestureStep ==
    ASSUME 2 * RepeatIntervalMs <= TimeModulus,
           GestureInv, component = "presses", component' = component, Presses!Next
    PROVE  GestureInv'
<1>1. PICK d \in 0 .. MaxPressGap :
          \/ Presses!WithinOnePeriod(d) /\ (Presses!Call(d) \/ Presses!PollOnly(d))
          \/ \E l \in BOOLEAN : Presses!reset(l, d)
  BY DEF Presses!Next
<1>2. now' = Presses!Later(now, d)
  BY <1>1 DEF Presses!Call, Presses!PollOnly, Presses!reset
<1>3. /\ TimeModulus \in Nat \ {0} /\ RepeatIntervalMs \in Nat /\ RepeatDelayMs \in Nat
      /\ LongPressMs \in Nat /\ DoublePressMs \in Nat /\ LongPressMs <= TimeModulus
      /\ Presses!HoldCap \in Nat \ {0} /\ LongPressMs <= Presses!HoldCap
  BY GestureConstants
<1>4. /\ now' \in Presses!Time /\ AgeAt(now', now') = 0
      /\ AgeAt(now', pressedAt) \in Presses!Time
      /\ AgeAt(now', releasedAt) \in Presses!Time
  BY <1>2, GesturesAge
<1>5. /\ Presses!HoldNow(d) \in 0 .. Presses!HoldCap
      /\ Presses!HoldNow(d) < Presses!HoldCap =>
             AgeAt(now', pressedAt) <= Presses!HoldNow(d)
  BY <1>2, GesturesAge
<1>6. /\ Presses!GapNow(d) \in 0 .. TimeModulus
      /\ pendingShort /\ Presses!WithinOnePeriod(d) =>
             /\ Presses!GapNow(d) < TimeModulus
             /\ AgeAt(now', releasedAt) = Presses!GapNow(d)
  BY <1>2, GesturesAge
<1>7. /\ Presses!SinceLongNow(d) \in 0 .. RepeatIntervalMs
      /\ longEmitted /\ Presses!SinceLongNow(d) < RepeatIntervalMs =>
             AgeAt(now', nextRepeatAt - RepeatIntervalMs) = Presses!SinceLongNow(d)
  BY <1>2, GesturesAge
<1>8. /\ Presses!Later(now', RepeatIntervalMs) \in Presses!Time
      /\ AgeAt(now', Presses!Later(now', RepeatIntervalMs) - RepeatIntervalMs) = 0
      /\ AgeAt(now', nextRepeatAt - RepeatIntervalMs) < RepeatIntervalMs =>
             ~(AgeAt(now', nextRepeatAt) < TimeModulus \div 2)
  <2>1. nextRepeatAt \in Presses!Time
    BY DEF GestureInv, GestureTypes
  <2> QED
    BY <1>4, <2>1, DeadlineIsAhead
<1>9. Presses!Later(now', RepeatDelayMs) \in Presses!Time
  <2>1. now' + RepeatDelayMs \in Int
    BY <1>3, <1>4 DEF Presses!Time
  <2>2. (now' + RepeatDelayMs) % TimeModulus \in 0 .. TimeModulus - 1
    BY <1>3, <2>1, Division
  <2> QED
    BY <2>2 DEF Presses!Later, Presses!Time
<1>10. /\ GestureTypes /\ unreported \in Nat /\ pendingShort \in BOOLEAN
       /\ pendingShort => unreported >= 1
  BY DEF GestureInv, GestureTypes, GesturesAreTrue, Presses!NothingInvented
<1>11. 0 \in 0 .. Presses!HoldCap /\ 0 \in 0 .. TimeModulus /\ 0 \in 0 .. RepeatIntervalMs
       /\ AgeAt(now', now') <= 0
  BY <1>3, <1>4
<1> SUFFICES /\ GestureTypes' /\ GestureAges'
             /\ Presses!NothingInvented' /\ Presses!GesturesKeepTheirTimes'
  BY DEF GestureInv, GesturesAreTrue
<1>12. CASE \E l \in BOOLEAN : Presses!reset(l, d)
  <2>1. /\ pressed' \in BOOLEAN /\ longEmitted' = FALSE /\ pendingShort' = FALSE
        /\ pressedAt' = now' /\ releasedAt' = now'
        /\ nextRepeatAt' = Presses!Later(now', RepeatDelayMs)
        /\ event' = "None" /\ hold' = 0 /\ gap' = 0
        /\ sinceLong' = Presses!SinceLongNow(d) /\ unreported' = 0
    BY <1>12 DEF Presses!reset
  <2>2. GestureTypes'
    BY <1>4, <1>7, <1>9, <1>11, <2>1 DEF GestureTypes
  <2>3. GestureAges'
    BY <1>4, <1>11, <2>1 DEF GestureAges
  <2> QED
    BY <2>1, <2>2, <2>3 DEF Presses!NothingInvented, Presses!GesturesKeepTheirTimes
<1>13. CASE Presses!WithinOnePeriod(d) /\ Presses!Press(d)
  <2>1. /\ pressed' = TRUE /\ longEmitted' = FALSE /\ pressedAt' = now'
        /\ nextRepeatAt' = Presses!Later(now', RepeatDelayMs)
        /\ event' = "None" /\ hold' = 0 /\ gap' = Presses!GapNow(d)
        /\ sinceLong' = Presses!SinceLongNow(d)
        /\ UNCHANGED <<pendingShort, releasedAt, unreported>>
    BY <1>13 DEF Presses!Press
  <2>2. GestureTypes'
    BY <1>4, <1>6, <1>7, <1>9, <1>10, <1>11, <2>1 DEF GestureTypes
  <2>3. GestureAges'
    BY <1>4, <1>6, <1>11, <1>13, <2>1 DEF GestureAges
  <2> QED
    BY <1>10, <2>1, <2>2, <2>3 DEF Presses!NothingInvented, Presses!GesturesKeepTheirTimes
<1>14. CASE Presses!WithinOnePeriod(d) /\ Presses!ReleaseLong(d)
  <2>1. /\ pressed' = FALSE /\ event' = "None" /\ hold' = Presses!HoldNow(d)
        /\ gap' = Presses!GapNow(d) /\ sinceLong' = Presses!SinceLongNow(d)
        /\ UNCHANGED <<longEmitted, pendingShort, pressedAt, releasedAt, nextRepeatAt,
                       unreported>>
    BY <1>14 DEF Presses!ReleaseLong
  <2>2. GestureTypes'
    BY <1>5, <1>6, <1>7, <1>10, <2>1 DEF GestureTypes
  <2>3. GestureAges'
    BY <1>4, <1>5, <1>6, <1>7, <1>14, <2>1 DEF GestureAges
  <2> QED
    BY <1>10, <2>1, <2>2, <2>3 DEF Presses!NothingInvented, Presses!GesturesKeepTheirTimes
<1>15. CASE Presses!WithinOnePeriod(d) /\ Presses!ReleaseSecond(d)
  <2>1. ~(AgeAt(now', releasedAt) >= DoublePressMs) /\ pendingShort
    BY <1>15 DEF Presses!ReleaseSecond, Presses!elapsed, Presses!Since, AgeAt
  <2>2. between' < DoublePressMs /\ event' = "DoublePress"
    BY <1>3, <1>4, <1>6, <1>15, <2>1 DEF Presses!ReleaseSecond, Presses!Time
  <2>3. /\ pressed' = FALSE /\ pendingShort' = FALSE /\ hold' = Presses!HoldNow(d)
        /\ gap' = Presses!GapNow(d) /\ sinceLong' = Presses!SinceLongNow(d)
        /\ unreported' = unreported - 1
        /\ UNCHANGED <<longEmitted, pressedAt, releasedAt, nextRepeatAt>>
    BY <1>15 DEF Presses!ReleaseSecond
  <2>4. unreported' \in Nat
    BY <1>10, <2>1, <2>3
  <2>5. GestureTypes'
    BY <1>5, <1>6, <1>7, <1>10, <2>3, <2>4 DEF GestureTypes
  <2>6. GestureAges'
    BY <1>4, <1>5, <1>7, <2>3 DEF GestureAges
  <2> QED
    BY <2>2, <2>3, <2>4, <2>5, <2>6
    DEF Presses!NothingInvented, Presses!GesturesKeepTheirTimes
<1>16. CASE Presses!WithinOnePeriod(d) /\ Presses!ReleaseClick(d)
  <2>1. /\ pressed' = FALSE /\ pendingShort' = TRUE /\ releasedAt' = now'
        /\ event' = "None" /\ hold' = Presses!HoldNow(d) /\ gap' = 0
        /\ sinceLong' = Presses!SinceLongNow(d) /\ unreported' = unreported + 1
        /\ UNCHANGED <<longEmitted, pressedAt, nextRepeatAt>>
    BY <1>16 DEF Presses!ReleaseClick
  <2>2. unreported' \in Nat /\ unreported' >= 1
    BY <1>10, <2>1
  <2>3. GestureTypes'
    BY <1>4, <1>5, <1>7, <1>10, <1>11, <2>1, <2>2 DEF GestureTypes
  <2>4. GestureAges'
    BY <1>3, <1>4, <1>5, <1>7, <2>1 DEF GestureAges
  <2> QED
    BY <2>1, <2>2, <2>3, <2>4 DEF Presses!NothingInvented, Presses!GesturesKeepTheirTimes
<1>17. CASE Presses!WithinOnePeriod(d) /\ Presses!LongPress(d)
  <2>1. AgeAt(now', pressedAt) >= LongPressMs
    BY <1>17 DEF Presses!LongPress, Presses!LongIsDue, Presses!elapsed, Presses!Since, AgeAt
  <2>2. Presses!HoldNow(d) >= LongPressMs
    BY <1>3, <1>4, <1>5, <2>1 DEF Presses!Time
  <2>3. nextRepeatAt' = Presses!Later(now', RepeatIntervalMs)
    BY <1>17 DEF Presses!LongPress
  <2>4. nextRepeatAt' \in Presses!Time
        /\ AgeAt(now', nextRepeatAt' - RepeatIntervalMs) = 0
    BY <1>8, <2>3
  <2> QED
    BY <1>3, <1>4, <1>5, <1>6, <1>10, <1>11, <1>17, <2>2, <2>4
    DEF Presses!LongPress, GestureTypes, GestureAges, Presses!NothingInvented,
        Presses!GesturesKeepTheirTimes
<1>18. CASE Presses!WithinOnePeriod(d) /\ Presses!Repeat(d)
  <2>1. longEmitted /\ AgeAt(now', nextRepeatAt) < TimeModulus \div 2
    BY <1>18 DEF Presses!Repeat, Presses!RepeatIsDue, Presses!reached, Presses!Since, AgeAt
  <2>2. Presses!SinceLongNow(d) = RepeatIntervalMs
    BY <1>3, <1>7, <1>8, <2>1
  <2>3. nextRepeatAt' = Presses!Later(now', RepeatIntervalMs)
    BY <1>18 DEF Presses!Repeat
  <2>4. nextRepeatAt' \in Presses!Time
        /\ AgeAt(now', nextRepeatAt' - RepeatIntervalMs) = 0
    BY <1>8, <2>3
  <2> QED
    BY <1>3, <1>4, <1>5, <1>6, <1>10, <1>11, <1>18, <2>2, <2>4
    DEF Presses!Repeat, GestureTypes, GestureAges, Presses!NothingInvented,
        Presses!GesturesKeepTheirTimes
<1>19. CASE Presses!WithinOnePeriod(d) /\ Presses!poll(d)
  <2>1. CASE Presses!ShortIsDue
    <3>1. pendingShort /\ AgeAt(now', releasedAt) >= DoublePressMs
      BY <2>1 DEF Presses!ShortIsDue, Presses!elapsed, Presses!Since, AgeAt
    <3>2. Presses!GapNow(d) >= DoublePressMs
      BY <1>6, <1>19, <3>1
    <3>3. /\ event' = "ShortPress" /\ pendingShort' = FALSE
          /\ between' = Presses!GapNow(d) /\ unreported' = unreported - 1
          /\ hold' = Presses!HoldNow(d) /\ gap' = Presses!GapNow(d)
          /\ sinceLong' = Presses!SinceLongNow(d)
          /\ UNCHANGED <<pressed, longEmitted, pressedAt, releasedAt, nextRepeatAt>>
      BY <1>19, <2>1 DEF Presses!poll
    <3>4. unreported' \in Nat
      BY <1>10, <3>1, <3>3
    <3>5. GestureTypes'
      BY <1>5, <1>6, <1>7, <1>10, <3>3, <3>4 DEF GestureTypes
    <3>6. GestureAges'
      BY <1>4, <1>5, <1>7, <3>3 DEF GestureAges
    <3> QED
      BY <3>2, <3>3, <3>4, <3>5, <3>6
      DEF Presses!NothingInvented, Presses!GesturesKeepTheirTimes
  <2>2. CASE ~Presses!ShortIsDue
    BY <1>3, <1>4, <1>5, <1>6, <1>7, <1>10, <1>19, <2>2
    DEF Presses!poll, GestureTypes, GestureAges, Presses!NothingInvented,
        Presses!GesturesKeepTheirTimes
  <2> QED
    BY <2>1, <2>2
<1> QED
  BY <1>1, <1>12, <1>13, <1>14, <1>15, <1>16, <1>17, <1>18, <1>19
  DEF Presses!Call, Presses!PollOnly

(***************************************************************************)
(* No gesture is invented and each keeps its times, across wraparound and  *)
(* late calls, if the repeat interval is at most half a period of the      *)
(* clock: the deadline of a longer one would count as reached at once.     *)
(***************************************************************************)
THEOREM GesturesAreMade ==
    ASSUME 2 * RepeatIntervalMs <= TimeModulus
    PROVE  PanelSpec => []GesturesAreTrue
<1>1. PanelInit => GestureInv
  <2> SUFFICES ASSUME PanelInit PROVE GestureInv
    OBVIOUS
  <2>1. /\ now \in Presses!Time
        /\ pressed = FALSE /\ longEmitted = FALSE /\ pendingShort = FALSE
        /\ pressedAt = 0 /\ releasedAt = 0 /\ nextRepeatAt = 0 /\ event = "None"
        /\ hold = Presses!HoldCap /\ gap = TimeModulus
        /\ sinceLong = RepeatIntervalMs /\ unreported = 0
    BY DEF PanelInit, Presses!Init
  <2>2. 0 \in Presses!Time
    BY GestureConstants DEF Presses!Time
  <2>3. GestureTypes
    <3>1. /\ hold \in 0 .. Presses!HoldCap /\ gap \in 0 .. TimeModulus
          /\ sinceLong \in 0 .. RepeatIntervalMs /\ unreported \in Nat
      BY <2>1, GestureConstants
    <3>2. pressedAt \in Presses!Time /\ releasedAt \in Presses!Time
          /\ nextRepeatAt \in Presses!Time
      BY <2>1, <2>2
    <3>3. pressed \in BOOLEAN /\ longEmitted \in BOOLEAN /\ pendingShort \in BOOLEAN
      BY <2>1
    <3> QED
      BY <3>1, <3>2, <3>3 DEF GestureTypes
  <2>4. GestureAges
    BY <2>1, GestureConstants DEF GestureAges
  <2>5. GesturesAreTrue
    BY <2>1
    DEF GesturesAreTrue, Presses!NothingInvented, Presses!GesturesKeepTheirTimes
  <2> QED
    BY <2>3, <2>4, <2>5 DEF GestureInv
<1>2. GestureInv /\ [PanelNext]_panelVars => GestureInv'
  <2> SUFFICES ASSUME GestureInv, [PanelNext]_panelVars PROVE GestureInv'
    OBVIOUS
  <2>1. component' = component
    BY DialSteps
  <2>2. CASE component = "presses" /\ Presses!Next
    BY <2>1, <2>2, GestureStep
  <2>3. CASE UNCHANGED presses /\ (component = "presses" => UNCHANGED now)
    BY <2>1, <2>3
    DEF presses, GestureInv, GestureTypes, GestureAges, GesturesAreTrue,
        Presses!NothingInvented, Presses!GesturesKeepTheirTimes
  <2> QED
    BY <2>2, <2>3, DialSteps
<1>3. GestureInv => GesturesAreTrue
  BY DEF GestureInv
<1> QED
  BY <1>1, <1>2, <1>3, PTL DEF PanelSpec

-----------------------------------------------------------------------------
(***************************************************************************)
(* The encoder.                                                            *)
(***************************************************************************)
EncoderObject ==
    [initialized : BOOLEAN, previousState : 0 .. 3, accumulator : Int,
     position : Int, delta : -1 .. 1, invalidTransitionCount : Nat]

(***************************************************************************)
(* The decoder has seen the levels of where the shaft is, and has less     *)
(* than a detent to account for.                                           *)
(***************************************************************************)
EncoderInv ==
    /\ encoder \in EncoderObject
    /\ inverted \in BOOLEAN /\ shaft \in Int /\ start \in Int
    /\ encoder.accumulator < TransitionsPerDetent
    /\ -encoder.accumulator < TransitionsPerDetent
    /\ IF encoder.initialized
       THEN encoder.previousState = Turning!Levels(shaft)
       ELSE encoder.position = 0
    /\ Turning!LossIsCounted

(***************************************************************************)
(* Within two quarter steps the contacts tell a single step from none and  *)
(* from a double one.                                                      *)
(***************************************************************************)
LEMMA Quarters ==
    ASSUME NEW s \in Int, NEW k \in -2 .. 2
    PROVE  /\ Turning!Levels(s) \in 0 .. 3
           /\ k \in -1 .. 1 =>
                  /\ ~Turning!TwoBitJump(Turning!Levels(s), Turning!Levels(s + k))
                  /\ Turning!Transition(Turning!Levels(s), Turning!Levels(s + k)) = k
           /\ k \notin -1 .. 1 =>
                  Turning!TwoBitJump(Turning!Levels(s), Turning!Levels(s + k))
<1> DEFINE r == s % 4
           next == IF r + k > 3 THEN r + k - 4 ELSE IF r + k < 0 THEN r + k + 4 ELSE r + k
<1>1. /\ s \div 4 \in Int /\ r \in 0 .. 3
      /\ s = 4 * (s \div 4) + (s % 4)
  BY Division
<1>2. next \in 0 .. 3
  BY <1>1
<1>3. (s + k) % 4 = next
  <2> DEFINE q == s \div 4
             p == IF r + k > 3 THEN q + 1 ELSE IF r + k < 0 THEN q - 1 ELSE q
  <2>1. p \in Int /\ s + k = 4 * p + next
    BY <1>1
  <2>2. \A m \in Int, t \in 0 .. 3 : (4 * m + t) % 4 = t
    <3>1. 4 \in Nat \ {0} /\ 4 - 1 = 3
      OBVIOUS
    <3> QED
      BY <3>1, QuotientOf
  <2> HIDE DEF p, next
  <2> QED
    BY <1>2, <2>1, <2>2
<1>4. Turning!Levels(s) = <<0, 2, 3, 1>>[r + 1]
      /\ Turning!Levels(s + k) = <<0, 2, 3, 1>>[next + 1]
  BY <1>3 DEF Turning!Levels
<1>5. r \in {0, 1, 2, 3} /\ k \in {-2, -1, 0, 1, 2}
  BY <1>1
<1>6. CASE r = 0
  BY <1>4, <1>5, <1>6 DEF Turning!TwoBitJump, Turning!Transition, Turning!T
<1>7. CASE r = 1
  BY <1>4, <1>5, <1>7 DEF Turning!TwoBitJump, Turning!Transition, Turning!T
<1>8. CASE r = 2
  BY <1>4, <1>5, <1>8 DEF Turning!TwoBitJump, Turning!Transition, Turning!T
<1>9. CASE r = 3
  BY <1>4, <1>5, <1>9 DEF Turning!TwoBitJump, Turning!Transition, Turning!T
<1> QED
  BY <1>5, <1>6, <1>7, <1>8, <1>9

(***************************************************************************)
(* What a sample does to the fields: a single step or none counts towards  *)
(* a detent, a double one is counted as invalid.                           *)
(***************************************************************************)
Signed(count) == IF inverted THEN -count ELSE count

SampledTo(k, sampled, found) ==
    /\ found \in EncoderObject /\ found.initialized
    /\ found.previousState = sampled
    /\ found.accumulator < TransitionsPerDetent
    /\ -found.accumulator < TransitionsPerDetent
    /\ IF k \in -1 .. 1
       THEN /\ found.invalidTransitionCount = encoder.invalidTransitionCount
            /\ \E m \in -1 .. 1 :
                   /\ Signed(found.position) = Signed(encoder.position) + m
                   /\ found.accumulator
                          = encoder.accumulator + k - m * TransitionsPerDetent
       ELSE /\ found.invalidTransitionCount = encoder.invalidTransitionCount + 1
            /\ found.position = encoder.position /\ found.accumulator = 0

LEMMA EncoderDecodes ==
    ASSUME EncoderInv, encoder.initialized, NEW k \in -2 .. 2
    PROVE  SampledTo(k, Turning!Levels(shaft + k),
                     Turning!Detent(Turning!Decoded(encoder, Turning!Levels(shaft + k))))
<1> DEFINE sampled == Turning!Levels(shaft + k)
           e == Turning!Decoded(encoder, sampled)
           found == Turning!Detent(e)
<1> SUFFICES SampledTo(k, sampled, found)
  OBVIOUS
<1>1. TransitionsPerDetent \in Nat \ {0}
  BY PanelAssumption DEF PanelAssumption, Turning!KnobAssumption
<1>2. /\ encoder \in EncoderObject /\ inverted \in BOOLEAN
      /\ encoder.accumulator \in Int /\ encoder.position \in Int
      /\ encoder.accumulator < TransitionsPerDetent
      /\ -encoder.accumulator < TransitionsPerDetent
      /\ encoder.previousState = Turning!Levels(shaft) /\ shaft \in Int
  BY DEF EncoderInv, EncoderObject
<1>3. /\ sampled \in 0 .. 3
      /\ k \in -1 .. 1 => /\ ~Turning!TwoBitJump(encoder.previousState, sampled)
                          /\ Turning!Transition(encoder.previousState, sampled) = k
      /\ k \notin -1 .. 1 => Turning!TwoBitJump(encoder.previousState, sampled)
  <2>1. shaft + k \in Int /\ 0 \in -2 .. 2
    BY <1>2
  <2> QED
    BY <1>2, <2>1, Quarters
<1> HIDE DEF sampled
<1>4. CASE k \in -1 .. 1
  <2>1. /\ e = [encoder EXCEPT !.accumulator = @ + k, !.previousState = sampled]
        /\ encoder.accumulator + k \in Int
    <3>1. e = [encoder EXCEPT !.accumulator
                                 = @ + Turning!Transition(encoder.previousState, sampled),
                              !.previousState = sampled]
      BY <1>3, <1>4 DEF Turning!Decoded
    <3>2. Turning!Transition(encoder.previousState, sampled) = k
      BY <1>3, <1>4
    <3> HIDE DEF e
    <3> QED
      BY <1>2, <3>1, <3>2
  <2>2. /\ e \in EncoderObject /\ e.initialized /\ e.previousState = sampled
        /\ e.accumulator = encoder.accumulator + k
        /\ e.position = encoder.position
        /\ e.invalidTransitionCount = encoder.invalidTransitionCount
    BY <1>2, <1>3, <2>1 DEF EncoderObject
  <2> HIDE DEF e
  <2>3. found = Turning!Detent(e)
    OBVIOUS
  <2> HIDE DEF found
  <2>4. CASE e.accumulator >= TransitionsPerDetent \/ e.accumulator <= -TransitionsPerDetent
    <3>1. found = [e EXCEPT !.delta = Turning!Direction(e),
                            !.position = @ + Turning!Direction(e), !.accumulator = 0]
      BY <2>3, <2>4 DEF Turning!Detent
    <3>2. Turning!Direction(e) \in {-1, 1}
      BY DEF Turning!Direction
    <3>3. /\ found \in EncoderObject /\ found.initialized
          /\ found.previousState = sampled /\ found.accumulator = 0
          /\ found.position = encoder.position + Turning!Direction(e)
          /\ found.invalidTransitionCount = encoder.invalidTransitionCount
      <4> DEFINE way == Turning!Direction(e)
      <4>1. way \in -1 .. 1 /\ e.position + way \in Int
        BY <1>2, <2>2, <3>2
      <4>2. found = [e EXCEPT !.delta = way, !.position = @ + way, !.accumulator = 0]
        BY <3>1
      <4> HIDE DEF way
      <4>3. found \in EncoderObject
        <5> DEFINE d == [e EXCEPT !.delta = way]
                   p == [d EXCEPT !.position = e.position + way]
        <5>1. d \in EncoderObject
          BY <2>2, <4>1 DEF EncoderObject
        <5>2. found = [p EXCEPT !.accumulator = 0]
          BY <2>2, <4>2 DEF EncoderObject
        <5> HIDE DEF d
        <5>3. p \in EncoderObject
          BY <4>1, <5>1 DEF EncoderObject
        <5> HIDE DEF p
        <5> QED
          BY <5>2, <5>3 DEF EncoderObject
      <4>4. /\ found.initialized /\ found.previousState = sampled
            /\ found.accumulator = 0 /\ found.position = e.position + way
            /\ found.invalidTransitionCount = e.invalidTransitionCount
        BY <2>2, <4>2 DEF EncoderObject
      <4> QED
        BY <2>2, <4>3, <4>4 DEF way
    <3> DEFINE m == IF e.accumulator > 0 THEN 1 ELSE -1
    <3>4. m \in -1 .. 1 /\ encoder.accumulator + k - m * TransitionsPerDetent = 0
      BY <1>1, <1>2, <1>4, <2>2, <2>4
    <3>5. Turning!Direction(e) = IF inverted THEN -m ELSE m
      <4> DEFINE up == e.accumulator > 0
      <4>1. up = TRUE \/ up = FALSE
        OBVIOUS
      <4>2. Turning!Direction(e) = IF up # inverted THEN 1 ELSE -1
        BY DEF Turning!Direction
      <4>3. m = IF up THEN 1 ELSE -1
        OBVIOUS
      <4> HIDE DEF up, m
      <4>4. CASE inverted = TRUE
        <5>1. CASE up = TRUE
          BY <4>2, <4>3, <4>4, <5>1
        <5>2. CASE up = FALSE
          <6>1. Turning!Direction(e) = 1 /\ m = -1
            BY <4>2, <4>3, <4>4, <5>2
          <6>2. m \in Int /\ m + 1 = 0
            BY <6>1
          <6>3. -m = 1
            BY <6>2
          <6> QED
            BY <4>4, <6>1, <6>3
        <5> QED
          BY <4>1, <5>1, <5>2
      <4>5. CASE inverted = FALSE
        <5>1. CASE up = TRUE
          BY <4>2, <4>3, <4>5, <5>1
        <5>2. CASE up = FALSE
          BY <4>2, <4>3, <4>5, <5>2
        <5> QED
          BY <4>1, <5>1, <5>2
      <4> QED
        BY <1>2, <4>4, <4>5
    <3>6. Signed(found.position) = Signed(encoder.position) + m
      BY <1>2, <3>3, <3>5 DEF Signed
    <3> HIDE DEF m
    <3>7. \E i \in -1 .. 1 :
              /\ Signed(found.position) = Signed(encoder.position) + i
              /\ found.accumulator = encoder.accumulator + k - i * TransitionsPerDetent
      BY <3>3, <3>4, <3>6
    <3> QED
      BY <1>1, <1>4, <3>3, <3>7 DEF SampledTo
  <2>5. CASE ~(e.accumulator >= TransitionsPerDetent \/ e.accumulator <= -TransitionsPerDetent)
    <3>1. found = [e EXCEPT !.delta = 0]
      BY <2>3, <2>5 DEF Turning!Detent
    <3>2. /\ found \in EncoderObject /\ found.initialized
          /\ found.previousState = sampled
          /\ found.accumulator = encoder.accumulator + k
          /\ found.position = encoder.position
          /\ found.invalidTransitionCount = encoder.invalidTransitionCount
      BY <2>2, <3>1 DEF EncoderObject
    <3>3. found.accumulator < TransitionsPerDetent /\ -found.accumulator < TransitionsPerDetent
      BY <1>1, <1>2, <2>1, <2>2, <2>5, <3>2
    <3>4. /\ 0 \in -1 .. 1
          /\ Signed(found.position) = Signed(encoder.position) + 0
          /\ found.accumulator = encoder.accumulator + k - 0 * TransitionsPerDetent
      BY <1>1, <1>2, <2>1, <3>2 DEF Signed
    <3>5. \E i \in -1 .. 1 :
              /\ Signed(found.position) = Signed(encoder.position) + i
              /\ found.accumulator = encoder.accumulator + k - i * TransitionsPerDetent
      BY <3>4
    <3> QED
      BY <1>4, <3>2, <3>3, <3>5 DEF SampledTo
  <2> QED
    BY <2>4, <2>5
<1>5. CASE k \notin -1 .. 1
  <2>1. e = [encoder EXCEPT !.invalidTransitionCount = @ + 1, !.accumulator = 0,
                            !.previousState = sampled]
    BY <1>3, <1>5 DEF Turning!Decoded
  <2>2. /\ e \in EncoderObject /\ e.initialized /\ e.previousState = sampled
        /\ e.accumulator = 0 /\ e.position = encoder.position
        /\ e.invalidTransitionCount = encoder.invalidTransitionCount + 1
    <3>1. encoder.invalidTransitionCount + 1 \in Nat
      BY <1>2 DEF EncoderObject
    <3> HIDE DEF e
    <3>2. e \in EncoderObject
      <4> DEFINE c == encoder.invalidTransitionCount + 1
                 d == [encoder EXCEPT !.invalidTransitionCount = c]
      <4>1. d \in EncoderObject
        <5> HIDE DEF c
        <5> QED
          BY <1>2, <3>1 DEF EncoderObject, c
      <4> DEFINE a == [d EXCEPT !.accumulator = 0]
      <4>2. e = [a EXCEPT !.previousState = sampled]
        BY <1>2, <2>1 DEF EncoderObject
      <4> HIDE DEF d
      <4>3. a \in EncoderObject
        BY <4>1 DEF EncoderObject
      <4> HIDE DEF a
      <4> QED
        BY <1>3, <4>2, <4>3 DEF EncoderObject
    <3> QED
      BY <1>2, <2>1, <3>2 DEF EncoderObject
  <2> HIDE DEF e
  <2>3. found = Turning!Detent(e)
    OBVIOUS
  <2> HIDE DEF found
  <2>4. found = [e EXCEPT !.delta = 0]
    BY <1>1, <2>2, <2>3 DEF Turning!Detent
  <2>5. /\ found \in EncoderObject /\ found.initialized
        /\ found.previousState = sampled
        /\ found.accumulator = 0
        /\ found.position = encoder.position
        /\ found.invalidTransitionCount = encoder.invalidTransitionCount + 1
    BY <2>2, <2>4 DEF EncoderObject
  <2> QED
    BY <1>1, <1>5, <2>5 DEF SampledTo
<1> QED
  BY <1>4, <1>5

(***************************************************************************)
(* The account of the rotation after a sample.                             *)
(***************************************************************************)
LEMMA EncoderSampled ==
    ASSUME EncoderInv, encoder.initialized, NEW k \in -2 .. 2,
           shaft' = shaft + k, start' = start, inverted' = inverted,
           encoder' = Turning!Detent(Turning!Decoded(encoder, Turning!Levels(shaft')))
    PROVE  EncoderInv'
<1> DEFINE n == TransitionsPerDetent
           s == Signed(encoder.position)
           a == encoder.accumulator
           c == encoder.invalidTransitionCount
<1>1. n \in Nat \ {0}
  BY PanelAssumption DEF PanelAssumption, Turning!KnobAssumption
<1>2. /\ s \in Int /\ a \in Int /\ c \in Nat /\ a < n /\ -a < n
      /\ shaft \in Int /\ start \in Int /\ inverted \in BOOLEAN
  BY DEF EncoderInv, EncoderObject, Signed
<1>3. Turning!Distance(shaft - start, n * s + a) <= (n + 1) * c
  BY DEF EncoderInv, Turning!LossIsCounted, Turning!Counted, Signed
<1>4. /\ encoder' \in EncoderObject /\ encoder'.initialized
      /\ encoder'.previousState = Turning!Levels(shaft')
      /\ encoder'.accumulator < n /\ -encoder'.accumulator < n
      /\ IF k \in -1 .. 1
         THEN /\ encoder'.invalidTransitionCount = c
              /\ \E m \in -1 .. 1 :
                     /\ Signed(encoder'.position) = s + m
                     /\ encoder'.accumulator = a + k - m * n
         ELSE /\ encoder'.invalidTransitionCount = c + 1
              /\ encoder'.position = encoder.position /\ encoder'.accumulator = 0
  BY EncoderDecodes DEF SampledTo
<1>5. Turning!Distance(shaft' - start', n * Signed(encoder'.position) + encoder'.accumulator)
          <= (n + 1) * encoder'.invalidTransitionCount
  <2> HIDE DEF s, a, c, n
  <2>1. CASE k \in -1 .. 1
    <3>1. PICK m \in -1 .. 1 : /\ Signed(encoder'.position) = s + m
                               /\ encoder'.accumulator = a + k - m * n
      BY <1>4, <2>1
    <3>2. n * (s + m) = n * s + m * n /\ n * s \in Int /\ m * n \in Int
      BY <1>1, <1>2
    <3>3. n * Signed(encoder'.position) + encoder'.accumulator = n * s + a + k
      BY <1>1, <1>2, <3>1, <3>2
    <3>4. encoder'.invalidTransitionCount = c /\ shaft' - start' = shaft - start + k
      BY <1>2, <1>4, <2>1
    <3>5. Turning!Distance(shaft - start + k, n * s + a + k)
              = Turning!Distance(shaft - start, n * s + a)
      BY <1>2, <3>2 DEF Turning!Distance
    <3> QED
      BY <1>3, <3>3, <3>4, <3>5
  <2>2. CASE k \notin -1 .. 1
    <3>1. /\ encoder'.invalidTransitionCount = c + 1
          /\ Signed(encoder'.position) = s /\ encoder'.accumulator = 0
      BY <1>4, <2>2 DEF s, Signed
    <3>2. n * s \in Int /\ (n + 1) * c \in Int /\ (n + 1) * (c + 1) = (n + 1) * c + n + 1
      BY <1>1, <1>2
    <3>3. shaft' - start' = shaft - start + k
      BY <1>2
    <3>4. Turning!Distance(shaft - start + k, n * s)
              <= Turning!Distance(shaft - start, n * s + a) + n + 1
      BY <1>1, <1>2, <3>2 DEF Turning!Distance
    <3>5. /\ Turning!Distance(shaft - start, n * s + a) \in Int
          /\ Turning!Distance(shaft - start + k, n * s) \in Int
          /\ n * s + 0 = n * s
      BY <1>2, <3>2 DEF Turning!Distance
    <3>6. Turning!Distance(shaft - start + k, n * s) <= (n + 1) * c + n + 1
      BY <1>1, <1>3, <3>2, <3>4, <3>5
    <3> QED
      BY <3>1, <3>2, <3>3, <3>5, <3>6
  <2> QED
    BY <2>1, <2>2
<1>6. Turning!LossIsCounted'
  BY <1>5 DEF Turning!LossIsCounted, Turning!Counted, Signed
<1> QED
  BY <1>2, <1>4, <1>6 DEF EncoderInv

(***************************************************************************)
(* A reset, or the first sample, starts a new account.                     *)
(***************************************************************************)
LEMMA EncoderRestarted ==
    ASSUME shaft' \in Int, start' = shaft', inverted' \in BOOLEAN,
           Turning!Levels(shaft') \in 0 .. 3,
           encoder' = Turning!Reset(Turning!Levels(shaft'), 0)
    PROVE  EncoderInv'
<1>1. TransitionsPerDetent \in Nat \ {0}
  BY PanelAssumption DEF PanelAssumption, Turning!KnobAssumption
<1>2. /\ encoder' \in EncoderObject /\ encoder'.initialized
      /\ encoder'.previousState = Turning!Levels(shaft') /\ encoder'.accumulator = 0
      /\ encoder'.position = 0 /\ encoder'.invalidTransitionCount = 0
  BY DEF Turning!Reset, EncoderObject
<1>3. Turning!Counted' = 0 /\ shaft' - start' = 0
  <2>1. (IF inverted' THEN -encoder'.position ELSE encoder'.position) = 0
    BY <1>2
  <2>2. TransitionsPerDetent * 0 + 0 = 0
    BY <1>1
  <2>3. Turning!Counted' = 0
    BY <1>2, <2>1, <2>2 DEF Turning!Counted
  <2>4. \A a \in Int : a - a = 0
    OBVIOUS
  <2>5. shaft' - shaft' = 0
    BY <2>4
  <2> QED
    BY <2>3, <2>5
<1>4. Turning!LossIsCounted'
  <2>1. Turning!Distance(0, 0) = 0 /\ (TransitionsPerDetent + 1) * 0 = 0
    BY <1>1 DEF Turning!Distance
  <2> QED
    BY <1>2, <1>3, <2>1 DEF Turning!LossIsCounted
<1> QED
  BY <1>1, <1>2, <1>4 DEF EncoderInv

(***************************************************************************)
(* The value an encoder drives is the total of what was asked of it, kept  *)
(* between 0 and its span.                                                 *)
(***************************************************************************)
ValueInv ==
    /\ knob \in [value : Int, delta : Int, wrapped : BOOLEAN, clamped : BOOLEAN]
    /\ mode \in {"Clamp", "Wrap"}
    /\ total \in 0 .. Turning!Span - 1
    /\ Turning!ValueIsTotal

LEMMA SpanIsPositive ==
    /\ Turning!Span \in Nat \ {0} /\ Minimum \in Int /\ Maximum \in Int
    /\ Step \in Int /\ Detents \subseteq Int /\ Minimum <= Maximum
BY PanelAssumption DEF PanelAssumption, Turning!KnobAssumption, Turning!Span

(***************************************************************************)
(* The remainder of C++ has the sign of the dividend; taken twice, with    *)
(* the span added in between, it is the one of mathematics.                *)
(***************************************************************************)
LEMMA RemainderIsModulo ==
    ASSUME NEW n \in Nat \ {0}, NEW a \in Int
    PROVE  /\ a % n \in 0 .. n - 1
           /\ Turning!Remainder(Turning!Remainder(a, n) + n, n) = a % n
<1>1. \A m \in Int, r \in 0 .. n - 1 : (n * m + r) % n = r
  BY QuotientOf
<1>2. a % n \in 0 .. n - 1
  BY Division
<1>3. CASE a >= 0
  <2>1. (n * 1 + (a % n)) % n = a % n
    BY <1>1, <1>2
  <2>2. Turning!Remainder(a, n) = a % n
    BY <1>3 DEF Turning!Remainder
  <2>3. (a % n) + n >= 0 /\ (a % n) + n = n * 1 + (a % n)
    BY <1>2
  <2> QED
    BY <1>2, <2>1, <2>2, <2>3 DEF Turning!Remainder
<1>4. CASE a < 0
  <2> DEFINE r == (-a) % n
             q == (-a) \div n
  <2>1. r \in 0 .. n - 1 /\ q \in Int /\ -a = n * q + r
    <3>1. -a \in Int
      OBVIOUS
    <3> QED
      BY <3>1, Division
  <2>2. Turning!Remainder(a, n) = -r
    BY <1>4 DEF Turning!Remainder
  <2> HIDE DEF r, q
  <2>3. -r + n >= 0 /\ -r + n \in Int
    BY <2>1
  <2>4. Turning!Remainder(-r + n, n) = (-r + n) % n
    BY <2>3 DEF Turning!Remainder
  <2>5. CASE r = 0
    <3>1. (n * 1 + 0) % n = 0 /\ (n * (-q) + 0) % n = 0
      BY <1>1, <2>1
    <3>2. n * (-q) + 0 = a /\ n * 1 + 0 = -r + n
      BY <2>1, <2>5
    <3> QED
      BY <1>2, <2>2, <2>4, <3>1, <3>2
  <2>6. CASE r # 0
    <3>1. n - r \in 0 .. n - 1 /\ -q - 1 \in Int
      BY <2>1, <2>6
    <3>2. (n * 0 + (n - r)) % n = n - r /\ (n * (-q - 1) + (n - r)) % n = n - r
      BY <1>1, <3>1
    <3>3. n * (-q - 1) = -(n * q) - n /\ n * q \in Int /\ n * 0 = 0
      BY <2>1
    <3>4. n * (-q - 1) + (n - r) = a
      BY <2>1, <3>3
    <3>5. n * 0 + (n - r) = -r + n
      BY <2>1, <3>3
    <3> QED
      BY <1>2, <2>2, <2>4, <3>2, <3>4, <3>5
  <2> QED
    BY <2>5, <2>6
<1> QED
  BY <1>2, <1>3, <1>4

(***************************************************************************)
(* A value normalized from a candidate is within the bounds, and is the    *)
(* candidate itself unless it was clamped or wrapped.                      *)
(***************************************************************************)
LEMMA Normalizing ==
    ASSUME NEW candidate \in Int, mode \in {"Clamp", "Wrap"}
    PROVE  /\ Turning!Normalized(candidate).value \in Minimum .. Maximum
           /\ mode = "Wrap" =>
                  Turning!Normalized(candidate).value
                      = Minimum + ((candidate - Minimum) % Turning!Span)
           /\ mode = "Clamp" /\ ~Turning!Outside(candidate) =>
                  Turning!Normalized(candidate).value = candidate
           /\ mode = "Clamp" /\ Turning!Outside(candidate) =>
                  Turning!Normalized(candidate).value \in {Minimum, Maximum}
           /\ Turning!Normalized(candidate).clamped
                  <=> mode = "Clamp" /\ Turning!Outside(candidate)
           /\ Turning!Normalized(candidate)
                  \in [value : Int, delta : Int, wrapped : BOOLEAN, clamped : BOOLEAN]
<1>1. /\ Turning!Span \in Nat \ {0} /\ Minimum \in Int /\ Maximum \in Int
      /\ Minimum <= Maximum /\ Turning!Span = Maximum - Minimum + 1
  BY SpanIsPositive DEF Turning!Span
<1>2. Turning!Outside(candidate) \in BOOLEAN
  BY DEF Turning!Outside
<1>3. CASE mode = "Clamp"
  <2>1. Turning!Normalized(candidate).value = Turning!Clamped(candidate)
    BY <1>3 DEF Turning!Normalized
  <2>2. Turning!Clamped(candidate) \in Minimum .. Maximum
    BY <1>1 DEF Turning!Clamped
  <2>3. ~Turning!Outside(candidate) => Turning!Clamped(candidate) = candidate
    BY <1>1 DEF Turning!Clamped, Turning!Outside
  <2>4. Turning!Outside(candidate) => Turning!Clamped(candidate) \in {Minimum, Maximum}
    BY <1>1 DEF Turning!Clamped, Turning!Outside
  <2> QED
    BY <1>1, <1>2, <1>3, <2>1, <2>2, <2>3, <2>4 DEF Turning!Normalized
<1>4. CASE mode = "Wrap"
  <2>1. Turning!Normalized(candidate).value = Turning!Wrapped(candidate)
    BY <1>4 DEF Turning!Normalized
  <2>2. candidate - Minimum \in Int
    BY <1>1
  <2>3. /\ Turning!Wrapped(candidate) = Minimum + ((candidate - Minimum) % Turning!Span)
        /\ (candidate - Minimum) % Turning!Span \in 0 .. Turning!Span - 1
    BY <1>1, <2>2, RemainderIsModulo DEF Turning!Wrapped
  <2>4. Turning!Wrapped(candidate) \in Minimum .. Maximum
    BY <1>1, <2>3
  <2>5. /\ Turning!Normalized(candidate).value = Turning!Wrapped(candidate)
        /\ Turning!Normalized(candidate).clamped = FALSE
        /\ Turning!Normalized(candidate)
               = [value |-> Turning!Wrapped(candidate), delta |-> 0,
                  wrapped |-> Turning!Outside(candidate), clamped |-> FALSE]
    BY <1>2, <1>4 DEF Turning!Normalized
  <2>6. Turning!Wrapped(candidate) \in Int
    BY <1>1, <2>4
  <2>7. Turning!Normalized(candidate)
            \in [value : Int, delta : Int, wrapped : BOOLEAN, clamped : BOOLEAN]
    BY <1>2, <2>5, <2>6
  <2> QED
    BY <1>4, <2>3, <2>4, <2>5, <2>7
<1> QED
  BY <1>3, <1>4

(***************************************************************************)
(* Any number of detents keeps the account of the value.                   *)
(***************************************************************************)
LEMMA DetentsAreApplied ==
    ASSUME ValueInv, mode' = mode, NEW detents \in Int,
           knob' = Turning!Applied(detents), Turning!Asked(detents)
    PROVE  ValueInv'
<1>1. /\ Turning!Span \in Nat \ {0} /\ Minimum \in Int /\ Maximum \in Int
      /\ Turning!Span = Maximum - Minimum + 1 /\ Step \in Int
  BY SpanIsPositive DEF Turning!Span
<1>2. /\ knob \in [value : Int, delta : Int, wrapped : BOOLEAN, clamped : BOOLEAN]
      /\ mode \in {"Clamp", "Wrap"} /\ total \in 0 .. Turning!Span - 1
      /\ knob.value = Minimum + total
  BY DEF ValueInv, Turning!ValueIsTotal
<1>3. /\ mode = "Wrap" => total' = (total + detents * Step) % Turning!Span
      /\ mode = "Clamp" /\ knob'.clamped => total' = knob'.value - Minimum
      /\ mode = "Clamp" /\ ~knob'.clamped => total' = total + detents * Step
  BY DEF Turning!Asked
<1>4. detents * Step \in Int
  BY <1>1
<1>5. CASE detents = 0
  <2>1. knob' = [knob EXCEPT !.delta = 0, !.wrapped = FALSE, !.clamped = FALSE]
    BY <1>5 DEF Turning!Applied
  <2>2. /\ knob' \in [value : Int, delta : Int, wrapped : BOOLEAN, clamped : BOOLEAN]
        /\ knob'.value = knob.value /\ ~knob'.clamped
    <3>1. knob' \in [value : Int, delta : Int, wrapped : BOOLEAN, clamped : BOOLEAN]
      <4> DEFINE v == [value : Int, delta : Int, wrapped : BOOLEAN, clamped : BOOLEAN]
                 k == [knob EXCEPT !.delta = 0]
      <4>1. k \in v
        BY <1>2
      <4>2. knob' = [k EXCEPT !.wrapped = FALSE, !.clamped = FALSE]
        BY <1>2, <2>1
      <4> HIDE DEF k
      <4> QED
        BY <4>1, <4>2
    <3>2. knob'.value = knob.value /\ knob'.clamped = FALSE
      BY <1>2, <2>1
    <3> QED
      BY <3>1, <3>2
  <2>3. total + detents * Step = total
    BY <1>1, <1>2, <1>5
  <2>4. total % Turning!Span = total
    <3>1. (Turning!Span * 0 + total) % Turning!Span = total
      BY <1>1, <1>2, QuotientOf
    <3> QED
      BY <1>1, <1>2, <3>1
  <2>5. total' = total
    BY <1>2, <1>3, <2>2, <2>3, <2>4
  <2> QED
    BY <1>2, <2>2, <2>5 DEF ValueInv, Turning!ValueIsTotal
<1>6. CASE detents # 0
  <2> DEFINE candidate == knob.value + detents * Step
             next == Turning!Normalized(candidate)
  <2>1. candidate \in Int /\ candidate - Minimum = total + detents * Step
    BY <1>1, <1>2, <1>4
  <2>2. knob' = [next EXCEPT !.delta = next.value - knob.value]
    BY <1>6 DEF Turning!Applied
  <2> HIDE DEF candidate
  <2>3. /\ next.value \in Minimum .. Maximum
        /\ mode = "Wrap" => next.value = Minimum + ((candidate - Minimum) % Turning!Span)
        /\ mode = "Clamp" /\ ~Turning!Outside(candidate) => next.value = candidate
        /\ mode = "Clamp" /\ Turning!Outside(candidate) =>
               next.value \in {Minimum, Maximum}
        /\ next.clamped <=> mode = "Clamp" /\ Turning!Outside(candidate)
        /\ next \in [value : Int, delta : Int, wrapped : BOOLEAN, clamped : BOOLEAN]
    BY <1>2, <2>1, Normalizing
  <2> HIDE DEF next
  <2>4. next.value - knob.value \in Int
    BY <1>1, <1>2, <2>3
  <2>5. /\ knob' \in [value : Int, delta : Int, wrapped : BOOLEAN, clamped : BOOLEAN]
        /\ knob'.value = next.value /\ knob'.clamped = next.clamped
    BY <2>2, <2>3, <2>4
  <2>6. total' = next.value - Minimum
    <3>1. CASE mode = "Wrap"
      <4>1. (candidate - Minimum) % Turning!Span \in Int
        BY <1>1, <2>1, Division
      <4>2. total' = (candidate - Minimum) % Turning!Span
        BY <1>3, <2>1, <3>1
      <4> QED
        BY <1>1, <2>3, <3>1, <4>1, <4>2
    <3>2. CASE mode = "Clamp" /\ ~Turning!Outside(candidate)
      <4>1. ~knob'.clamped
        BY <2>3, <2>5, <3>2
      <4> QED
        BY <1>3, <2>1, <2>3, <3>2, <4>1
    <3>3. CASE mode = "Clamp" /\ Turning!Outside(candidate)
      <4>1. knob'.clamped
        BY <2>3, <2>5, <3>3
      <4> QED
        BY <1>3, <2>5, <3>3, <4>1
    <3> QED
      BY <1>2, <3>1, <3>2, <3>3
  <2>7. total' \in 0 .. Turning!Span - 1 /\ knob'.value = Minimum + total'
    BY <1>1, <2>3, <2>5, <2>6
  <2>8. knob'.clamped => knob'.value \in {Minimum, Maximum}
    BY <2>3, <2>5
  <2> QED
    BY <1>2, <2>5, <2>7, <2>8 DEF ValueInv, Turning!ValueIsTotal
<1> QED
  BY <1>5, <1>6

LEMMA ValueIsSet ==
    ASSUME NEW value \in Int, NEW found,
           found = [Turning!Normalized(value) EXCEPT !.wrapped = FALSE, !.clamped = FALSE],
           mode \in {"Clamp", "Wrap"}
    PROVE  /\ found \in [value : Int, delta : Int, wrapped : BOOLEAN, clamped : BOOLEAN]
           /\ found.value - Minimum \in 0 .. Turning!Span - 1
           /\ ~found.clamped
           /\ mode = "Wrap" => found.value - Minimum = (value - Minimum) % Turning!Span
<1>1. /\ Turning!Span \in Nat \ {0} /\ Minimum \in Int /\ Maximum \in Int
      /\ Turning!Span = Maximum - Minimum + 1
  BY SpanIsPositive DEF Turning!Span
<1> DEFINE next == Turning!Normalized(value)
<1>2. /\ next.value \in Minimum .. Maximum
      /\ next \in [value : Int, delta : Int, wrapped : BOOLEAN, clamped : BOOLEAN]
      /\ mode = "Wrap" => next.value = Minimum + ((value - Minimum) % Turning!Span)
  BY Normalizing
<1> HIDE DEF next
<1>3. found = [next EXCEPT !.wrapped = FALSE, !.clamped = FALSE]
  BY DEF next
<1>4. /\ found \in [value : Int, delta : Int, wrapped : BOOLEAN, clamped : BOOLEAN]
      /\ found.value = next.value /\ ~found.clamped
  BY <1>2, <1>3
<1>5. (value - Minimum) % Turning!Span \in Int
  <2>1. value - Minimum \in Int
    BY <1>1
  <2> QED
    BY <1>1, <2>1, Division
<1> QED
  BY <1>1, <1>2, <1>4, <1>5

(***************************************************************************)
(* What an encoder has lost of a rotation its count of invalid transitions *)
(* accounts for, and its value is the total of what was asked of it, for   *)
(* any shaft, any number of transitions per detent, any step and bounds.   *)
(***************************************************************************)
THEOREM TurnsAreCounted == PanelSpec => []TurnsAreAccountedFor
<1>1. PanelInit => EncoderInv /\ ValueInv
  <2> SUFFICES ASSUME PanelInit PROVE EncoderInv /\ ValueInv
    OBVIOUS
  <2>1. Turning!KnobInit
    BY DEF PanelInit, Start
  <2>2. EncoderInv
    <3>1. TransitionsPerDetent \in Nat \ {0}
      BY PanelAssumption DEF PanelAssumption, Turning!KnobAssumption
    <3>2. encoder \in EncoderObject /\ ~encoder.initialized
          /\ encoder.accumulator = 0 /\ encoder.position = 0
      BY <2>1 DEF Turning!KnobInit, EncoderObject
    <3> QED
      BY <2>1, <3>1, <3>2 DEF EncoderInv, Turning!LossIsCounted, Turning!KnobInit
  <2>3. ValueInv
    <3>1. /\ mode \in {"Clamp", "Wrap"} /\ 0 \in Int
          /\ knob = [Turning!Normalized(0) EXCEPT !.wrapped = FALSE, !.clamped = FALSE]
          /\ total = knob.value - Minimum
      BY <2>1 DEF Turning!KnobInit
    <3>2. /\ knob \in [value : Int, delta : Int, wrapped : BOOLEAN, clamped : BOOLEAN]
          /\ knob.value - Minimum \in 0 .. Turning!Span - 1 /\ ~knob.clamped
      BY <3>1, ValueIsSet
    <3>3. knob.value \in Int
      BY <3>2
    <3> QED
      BY <3>1, <3>2, <3>3, SpanIsPositive DEF ValueInv, Turning!ValueIsTotal
  <2> QED
    BY <2>2, <2>3
<1>2. EncoderInv /\ ValueInv /\ [PanelNext]_panelVars => EncoderInv' /\ ValueInv'
  <2> SUFFICES ASSUME EncoderInv, ValueInv, [PanelNext]_panelVars
               PROVE  EncoderInv' /\ ValueInv'
    OBVIOUS
  <2>1. CASE UNCHANGED turning
    BY <2>1 DEF turning, EncoderInv, ValueInv, Turning!LossIsCounted, Turning!Counted,
                Turning!ValueIsTotal
  <2>2. ASSUME NEW k \in -(MaxMissed + 1) .. MaxMissed + 1, Turning!update(k)
        PROVE  EncoderInv' /\ ValueInv'
    <3>1. k \in -2 .. 2 /\ k \in Int
      BY PanelAssumption DEF PanelAssumption, Turning!KnobAssumption
    <3>2. /\ shaft' = shaft + k /\ inverted' = inverted /\ mode' = mode
          /\ knob' = Turning!Applied(encoder'.delta) /\ Turning!Asked(encoder'.delta)
      BY <2>2 DEF Turning!update
    <3>3. EncoderInv'
      <4>1. CASE encoder.initialized
        BY <2>2, <3>1, <3>2, <4>1, EncoderSampled DEF Turning!update
      <4>2. CASE ~encoder.initialized
        <5>1. /\ encoder' = Turning!Reset(Turning!Levels(shaft'), encoder.position)
              /\ start' = shaft'
          BY <2>2, <4>2 DEF Turning!update
        <5>2. /\ shaft \in Int /\ encoder.position = 0 /\ inverted \in BOOLEAN
              /\ TransitionsPerDetent \in Nat \ {0}
          BY <4>2, PanelAssumption DEF EncoderInv, PanelAssumption, Turning!KnobAssumption
        <5>3. shaft' \in Int /\ Turning!Levels(shaft') \in 0 .. 3
          <6>1. shaft' \in Int /\ 0 \in -2 .. 2
            BY <3>1, <3>2, <5>2
          <6> QED
            BY <6>1, Quarters
        <5> QED
          BY <3>2, <5>1, <5>2, <5>3, EncoderRestarted
      <4> QED
        BY <4>1, <4>2
    <3>4. encoder'.delta \in Int
      BY <3>3 DEF EncoderInv, EncoderObject
    <3> QED
      BY <3>2, <3>3, <3>4, DetentsAreApplied
  <2>3. ASSUME NEW detents \in Detents, Turning!applyDetents(detents)
        PROVE  EncoderInv' /\ ValueInv'
    <3>1. detents \in Int
      BY SpanIsPositive
    <3>2. ValueInv'
      BY <2>3, <3>1, DetentsAreApplied DEF Turning!applyDetents
    <3> QED
      BY <2>3, <3>2
      DEF Turning!applyDetents, EncoderInv, Turning!LossIsCounted, Turning!Counted
  <2>4. ASSUME NEW value \in Minimum - 1 .. Maximum + 1, Turning!resetValue(value)
        PROVE  EncoderInv' /\ ValueInv'
    <3>1. value \in Int /\ mode \in {"Clamp", "Wrap"} /\ mode' = mode
      BY <2>4, SpanIsPositive DEF ValueInv, Turning!resetValue
    <3>2. /\ knob' = [Turning!Normalized(value) EXCEPT !.wrapped = FALSE, !.clamped = FALSE]
          /\ total' = IF mode = "Wrap" THEN (value - Minimum) % Turning!Span
                      ELSE knob'.value - Minimum
      BY <2>4 DEF Turning!resetValue
    <3>3. /\ knob' \in [value : Int, delta : Int, wrapped : BOOLEAN, clamped : BOOLEAN]
          /\ knob'.value - Minimum \in 0 .. Turning!Span - 1 /\ ~knob'.clamped
          /\ mode = "Wrap" => knob'.value - Minimum = (value - Minimum) % Turning!Span
      BY <3>1, <3>2, ValueIsSet
    <3>4. total' = knob'.value - Minimum /\ knob'.value \in Int
      BY <3>2, <3>3
    <3>5. ValueInv'
      BY <3>1, <3>3, <3>4, SpanIsPositive DEF ValueInv, Turning!ValueIsTotal
    <3> QED
      BY <2>4, <3>5
      DEF Turning!resetValue, EncoderInv, Turning!LossIsCounted, Turning!Counted
  <2>5. CASE Turning!resetEncoder
    <3>1. /\ shaft \in Int /\ inverted \in BOOLEAN /\ TransitionsPerDetent \in Nat \ {0}
      BY PanelAssumption DEF EncoderInv, PanelAssumption, Turning!KnobAssumption
    <3>2. shaft' = shaft % 4 /\ start' = shaft' /\ inverted' = inverted
          /\ encoder' = Turning!Reset(Turning!Levels(shaft'), 0)
      BY <2>5 DEF Turning!resetEncoder
    <3>3. shaft' \in Int /\ Turning!Levels(shaft') \in 0 .. 3
      <4>1. shaft' \in Int /\ 0 \in -2 .. 2
        BY <3>1, <3>2, Division
      <4> QED
        BY <4>1, Quarters
    <3>4. EncoderInv'
      BY <3>1, <3>2, <3>3, EncoderRestarted
    <3> QED
      BY <2>5, <3>4 DEF Turning!resetEncoder, ValueInv, Turning!ValueIsTotal
  <2> QED
    BY <2>1, <2>2, <2>3, <2>4, <2>5, DialSteps DEF Turning!KnobNext
<1>3. EncoderInv /\ ValueInv => TurnsAreAccountedFor
  BY DEF EncoderInv, ValueInv, TurnsAreAccountedFor
<1> QED
  BY <1>1, <1>2, <1>3, PTL DEF PanelSpec

-----------------------------------------------------------------------------
(***************************************************************************)
(* Voltages.                                                               *)
(***************************************************************************)
Line == [maximumCode : Nat, voltsPerCode : Int \ {0}, offsetVolts : Int]

LEMMA Products ==
    ASSUME NEW k \in Nat
    PROVE  \A a \in Int, b \in Int : a <= b => a * k <= b * k
<1> SUFFICES ASSUME NEW a \in Int, NEW b \in Int, a <= b PROVE a * k <= b * k
  OBVIOUS
<1>1. b - a \in Nat /\ (b - a) * k \in Nat
  OBVIOUS
<1>2. b * k = a * k + (b - a) * k /\ a * k \in Int
  OBVIOUS
<1> QED
  BY <1>1, <1>2

(***************************************************************************)
(* Adding a half before the division makes the quotient the multiple that  *)
(* is nearest, within the multiples there are.                             *)
(***************************************************************************)
LEMMA RoundedIsNearest ==
    ASSUME NEW k \in Nat \ {0}, NEW m \in Nat, NEW way \in 0 .. m * k
    PROVE  /\ Signals!Rounded(way, k) \in 0 .. m
           /\ \A n \in 0 .. m : Signals!Magnitude(Signals!Rounded(way, k) * k - way)
                                    <= Signals!Magnitude(n * k - way)
<1> DEFINE q == (2 * way + k) \div (2 * k)
           r == (2 * way + k) % (2 * k)
<1>1. way \in Nat /\ m * k \in Nat /\ 2 * k \in Nat \ {0} /\ 2 * way + k \in Int
  OBVIOUS
<1>2. q \in Int /\ r \in 0 .. 2 * k - 1 /\ 2 * way + k = (2 * k) * q + r
  BY <1>1, Division
<1>3. Signals!Rounded(way, k) = q
  BY DEF Signals!Rounded
<1> HIDE DEF q, r
<1>4. (2 * k) * q = 2 * (q * k) /\ q * k \in Int
  BY <1>2
<1>5. 2 * way + k = 2 * (q * k) + r
  BY <1>2, <1>4
<1>6. q >= 0
  <2>1. q <= -1 => q * k <= (-1) * k
    BY <1>2, Products
  <2>2. (-1) * k = -k
    OBVIOUS
  <2> QED
    BY <1>1, <1>2, <1>4, <1>5, <2>1, <2>2
<1>7. q <= m
  <2>1. q >= m + 1 => (m + 1) * k <= q * k
    BY <1>2, Products
  <2>2. (m + 1) * k = m * k + k
    OBVIOUS
  <2> QED
    BY <1>1, <1>2, <1>4, <1>5, <2>1, <2>2
<1>8. ASSUME NEW n \in 0 .. m
      PROVE  Signals!Magnitude(q * k - way) <= Signals!Magnitude(n * k - way)
  <2>1. n * k \in Int
    OBVIOUS
  <2>2. n = q \/ n <= q - 1 \/ n >= q + 1
    BY <1>2
  <2>3. n <= q - 1 => n * k <= (q - 1) * k
    BY <1>2, Products
  <2>4. n >= q + 1 => (q + 1) * k <= n * k
    BY <1>2, Products
  <2>5. (q - 1) * k = q * k - k /\ (q + 1) * k = q * k + k
    BY <1>2
  <2> QED
    BY <1>1, <1>2, <1>4, <1>5, <2>1, <2>2, <2>3, <2>4, <2>5 DEF Signals!Magnitude
<1> QED
  BY <1>2, <1>3, <1>6, <1>7, <1>8

(***************************************************************************)
(* The ends of a calibration, and what its codes stand for.                *)
(***************************************************************************)
LEMMA LineEnds ==
    ASSUME NEW line \in Line
    PROVE  LET low  == IF line.voltsPerCode > 0 THEN 0 ELSE line.maximumCode
               high == IF line.voltsPerCode > 0 THEN line.maximumCode ELSE 0
           IN  /\ Signals!minimumVolts(line) = low * line.voltsPerCode + line.offsetVolts
               /\ Signals!maximumVolts(line) = high * line.voltsPerCode + line.offsetVolts
               /\ Signals!minimumVolts(line) <= Signals!maximumVolts(line)
               /\ \A n \in 0 .. line.maximumCode :
                      /\ Signals!codeToVolts(line, n)
                             = n * line.voltsPerCode + line.offsetVolts
                      /\ Signals!minimumVolts(line) <= Signals!codeToVolts(line, n)
                      /\ Signals!codeToVolts(line, n) <= Signals!maximumVolts(line)
<1> DEFINE s == line.voltsPerCode
           o == line.offsetVolts
           m == line.maximumCode
           low == IF s > 0 THEN 0 ELSE m
           high == IF s > 0 THEN m ELSE 0
           from == low * s + o
           to == high * s + o
           E == Signals!Ends(line)
<1>1. m \in Nat /\ s \in Int \ {0} /\ o \in Int
  BY DEF Line
<1>2. \A n \in 0 .. m : Signals!codeToVolts(line, n) = n * s + o
  BY <1>1 DEF Signals!codeToVolts
<1>3. low \in 0 .. m /\ high \in 0 .. m /\ from \in Int /\ to \in Int
  BY <1>1
<1>4. ASSUME NEW n \in 0 .. m PROVE from <= n * s + o /\ n * s + o <= to
  <2>1. CASE s > 0
    <3>1. 0 * s <= n * s /\ n * s <= m * s
      BY <1>1, <2>1, Products
    <3> QED
      BY <1>1, <2>1, <3>1
  <2>2. CASE s < 0
    <3>1. -s \in Nat
      BY <1>1, <2>2
    <3>2. 0 * (-s) <= n * (-s) /\ n * (-s) <= m * (-s)
      BY <1>1, <3>1, Products
    <3>3. n * (-s) = -(n * s) /\ m * (-s) = -(m * s) /\ n * s \in Int /\ m * s \in Int
      BY <1>1
    <3> QED
      BY <1>1, <2>2, <3>2, <3>3
  <2> QED
    BY <1>1, <2>1, <2>2
<1>5. E = {from, to}
  <2>1. 0 \in 0 .. m /\ m \in 0 .. m
    BY <1>1
  <2>2. E = {0 * s + o, m * s + o}
    BY <1>2, <2>1 DEF Signals!Ends
  <2> QED
    BY <2>2
<1>6. from <= to
  BY <1>3, <1>4
<1> HIDE DEF E, from, to, low, high
<1>7. Signals!minimumVolts(line) = from
  <2>1. Signals!minimumVolts(line) = CHOOSE v \in E : \A w \in E : v <= w
    BY DEF Signals!minimumVolts, E
  <2>2. from \in E /\ \A w \in E : from <= w
    BY <1>3, <1>5, <1>6
  <2>3. \A v \in E : (\A w \in E : v <= w) => v = from
    BY <1>3, <1>5, <1>6
  <2> QED
    BY <2>1, <2>2, <2>3
<1>8. Signals!maximumVolts(line) = to
  <2>1. Signals!maximumVolts(line) = CHOOSE v \in E : \A w \in E : v >= w
    BY DEF Signals!maximumVolts, E
  <2>2. to \in E /\ \A w \in E : to >= w
    BY <1>3, <1>5, <1>6
  <2>3. \A v \in E : (\A w \in E : v >= w) => v = to
    BY <1>3, <1>5, <1>6
  <2> QED
    BY <2>1, <2>2, <2>3
<1> QED
  BY <1>2, <1>4, <1>6, <1>7, <1>8 DEF from, to, low, high

LEMMA NearestCode ==
    ASSUME NEW line \in Line, NEW v \in Int
    PROVE  /\ Signals!voltsToCode(line, v).code \in 0 .. line.maximumCode
           /\ \A n \in 0 .. line.maximumCode :
                  Signals!Magnitude(Signals!codeToVolts(line,
                                        Signals!voltsToCode(line, v).code) - v)
                      <= Signals!Magnitude(Signals!codeToVolts(line, n) - v)
           /\ Signals!voltsToCode(line, v).belowRange
                  \/ Signals!voltsToCode(line, v).aboveRange =>
                  \A n \in 0 .. line.maximumCode : Signals!codeToVolts(line, n) # v
<1> DEFINE s == line.voltsPerCode
           o == line.offsetVolts
           m == line.maximumCode
           k == IF s > 0 THEN s ELSE -s
           least0 == Signals!minimumVolts(line)
           most0 == Signals!maximumVolts(line)
           limited == Signals!Between(least0, v, most0)
           way == limited - o
           height == IF s > 0 THEN way ELSE -way
           raw == Signals!Rounded(height, k)
<1>1. m \in Nat /\ s \in Int \ {0} /\ o \in Int /\ k \in Nat \ {0}
  BY DEF Line
<1>2. m * s \in Int /\ m * (-s) = -(m * s) /\ 0 * s = 0
  BY <1>1
<1>3. /\ least0 = IF s > 0 THEN o ELSE m * s + o
      /\ most0 = IF s > 0 THEN m * s + o ELSE o
      /\ least0 <= most0
      /\ \A n \in 0 .. m : /\ Signals!codeToVolts(line, n) = n * s + o
                           /\ least0 <= n * s + o /\ n * s + o <= most0
  <2>1. o = 0 * s + o
    BY <1>1, <1>2
  <2> QED
    BY <2>1, LineEnds
<1> HIDE DEF least0, most0
<1>4. least0 \in Int /\ most0 \in Int /\ limited \in Int
      /\ least0 <= limited /\ limited <= most0
  BY <1>1, <1>2, <1>3 DEF Signals!Between
<1> HIDE DEF limited
<1>5. height \in 0 .. m * k
  BY <1>1, <1>2, <1>3, <1>4
<1>6. /\ raw \in 0 .. m
      /\ \A n \in 0 .. m : Signals!Magnitude(raw * k - height)
                               <= Signals!Magnitude(n * k - height)
  BY <1>1, <1>5, RoundedIsNearest
<1>7. Signals!voltsToCode(line, v) = [belowRange |-> v < least0, aboveRange |-> v > most0,
                                      code |-> raw]
  <2>1. raw = IF s > 0 THEN Signals!Rounded(way, s) ELSE Signals!Rounded(-way, -s)
    OBVIOUS
  <2> HIDE DEF raw
  <2>2. Signals!Between(0, raw, m) = raw
    BY <1>1, <1>6 DEF Signals!Between
  <2> QED
    BY <2>1, <2>2 DEF Signals!voltsToCode, least0, most0, limited
<1> HIDE DEF raw, k, height
<1>8. \A n \in 0 .. m : Signals!Magnitude(n * k - height)
                            = Signals!Magnitude((n * s + o) - limited)
  <2> SUFFICES ASSUME NEW n \in 0 .. m
               PROVE  Signals!Magnitude(n * k - height) = Signals!Magnitude((n * s + o) - limited)
    OBVIOUS
  <2>1. n * s \in Int /\ n * (-s) = -(n * s)
    BY <1>1
  <2>2. CASE s > 0
    <3>1. n * k - height = (n * s + o) - limited
      BY <1>1, <1>4, <2>1, <2>2 DEF k, height
    <3> QED
      BY <3>1
  <2>3. CASE ~(s > 0)
    <3>1. n * k - height = -((n * s + o) - limited) /\ (n * s + o) - limited \in Int
      BY <1>1, <1>4, <2>1, <2>3 DEF k, height
    <3> QED
      BY <3>1 DEF Signals!Magnitude
  <2> QED
    BY <2>2, <2>3
<1>9. ASSUME NEW n \in 0 .. m
      PROVE  Signals!Magnitude(Signals!codeToVolts(line, raw) - v)
                 <= Signals!Magnitude(Signals!codeToVolts(line, n) - v)
  <2> DEFINE x == raw * s + o
             y == n * s + o
  <2>1. /\ x \in Int /\ y \in Int
        /\ least0 <= y /\ y <= most0
        /\ least0 <= x /\ x <= most0
    BY <1>1, <1>3, <1>6
  <2>2. Signals!Magnitude(x - limited) <= Signals!Magnitude(y - limited)
    <3> DEFINE chosen == Signals!Magnitude(raw * k - height)
               other == Signals!Magnitude(n * k - height)
    <3>1. chosen = Signals!Magnitude(x - limited)
      BY <1>6, <1>8
    <3>2. other = Signals!Magnitude(y - limited)
      BY <1>8
    <3>3. chosen <= other
      BY <1>6
    <3> HIDE DEF other, chosen
    <3> QED
      BY <3>1, <3>2, <3>3
  <2>3. Signals!codeToVolts(line, raw) = x /\ Signals!codeToVolts(line, n) = y
    BY <1>3, <1>6
  <2>4. limited = IF v < least0 THEN least0 ELSE IF v > most0 THEN most0 ELSE v
    BY DEF limited, Signals!Between
  <2> HIDE DEF x, y
  <2>5. Signals!Magnitude(x - v) <= Signals!Magnitude(y - v)
    BY <1>1, <1>4, <2>1, <2>2, <2>4 DEF Signals!Magnitude
  <2> QED
    BY <2>3, <2>5
<1>10. v < least0 \/ v > most0 => \A n \in 0 .. m : n * s + o # v
  <2>1. \A n \in 0 .. m : n * s \in Int
    BY <1>1
  <2> QED
    BY <1>1, <1>3, <1>4, <2>1
<1>11. /\ Signals!voltsToCode(line, v).code = raw
       /\ Signals!voltsToCode(line, v).belowRange <=> v < least0
       /\ Signals!voltsToCode(line, v).aboveRange <=> v > most0
  <2> DEFINE below == v < least0
             above == v > most0
             found == Signals!voltsToCode(line, v)
  <2>1. found = [belowRange |-> below, aboveRange |-> above, code |-> raw]
    BY <1>7
  <2> HIDE DEF below, above, found
  <2>2. found.code = raw /\ found.belowRange = below /\ found.aboveRange = above
    BY <2>1
  <2> QED
    BY <2>2 DEF below, above, found
<1>12. \A n \in 0 .. m : Signals!codeToVolts(line, n) = n * s + o
  BY <1>3
<1>13. v < least0 \/ v > most0 => \A n \in 0 .. m : Signals!codeToVolts(line, n) # v
  BY <1>10, <1>12
<1> QED
  BY <1>6, <1>9, <1>11, <1>13

(***************************************************************************)
(* Every calibration is a line of integers that neither the constructor    *)
(* nor equal voltages leave flat.                                          *)
(***************************************************************************)
LEMMA CalibrationIsLine ==
    ASSUME NEW c \in Calibrations
    PROVE  Signals!fromTwoPoints(c) \in Line
<1>1. /\ c.maximumCode \in Nat /\ c.first \in Nat /\ c.second \in Nat
      /\ c.firstVolts \in Int /\ c.secondVolts \in Int
  BY PanelAssumption DEF PanelAssumption, Signals!SignalAssumption
<1> DEFINE rise == c.secondVolts - c.firstVolts
           across == c.second - c.first
           slope == IF c.first = c.second THEN 1
                    ELSE IF across > 0 THEN rise \div across ELSE (-rise) \div (-across)
<1>2. slope \in Int
  <2>1. CASE c.first = c.second
    BY <2>1
  <2>2. CASE c.first # c.second /\ across > 0
    <3>1. rise \in Int /\ across \in Nat \ {0}
      BY <1>1, <2>2
    <3> QED
      BY <2>2, <3>1, Division
  <2>3. CASE c.first # c.second /\ ~(across > 0)
    <3>1. -rise \in Int /\ -across \in Nat \ {0}
      BY <1>1, <2>3
    <3>2. (-rise) \div (-across) \in Int
      BY <3>1, Division
    <3> QED
      BY <2>3, <3>2
  <2> QED
    BY <2>1, <2>2, <2>3
<1>3. Signals!fromTwoPoints(c) =
          [maximumCode |-> c.maximumCode, voltsPerCode |-> IF slope = 0 THEN 1 ELSE slope,
           offsetVolts |-> c.firstVolts - slope * c.first]
  BY DEF Signals!fromTwoPoints
<1> HIDE DEF slope
<1>4. slope * c.first \in Int
  BY <1>1, <1>2
<1> QED
  BY <1>1, <1>2, <1>3, <1>4 DEF Line

VoltageInv ==
    /\ jackRange \in Ranges /\ cvRange \in Ranges
    /\ calibration \in Line
    /\ CodeIsNearest

(***************************************************************************)
(* The code sent is the nearest there is, for every converter, calibration *)
(* and voltage, and a limit is reported by the stage that imposed it, if   *)
(* the ranges of jack and CV overlap: of two that do not, the second can   *)
(* bring the voltage back to where it was before the first limited it.     *)
(***************************************************************************)
THEOREM CodesAreNearest ==
    ASSUME \A r, s \in Ranges : r.minimum <= s.maximum
    PROVE  PanelSpec => []CodeIsNearest
<1>1. PanelInit => VoltageInv
  <2> SUFFICES ASSUME PanelInit PROVE VoltageInv
    OBVIOUS
  <2>1. jackRange \in Ranges /\ cvRange \in Ranges /\ applied = 0
    BY DEF PanelInit, Start, Signals!VoltageInit
  <2>2. \E c \in Calibrations : calibration = Signals!fromTwoPoints(c)
    BY DEF PanelInit, Start, Signals!VoltageInit
  <2>3. calibration \in Line
    BY <2>2, CalibrationIsLine
  <2> QED
    BY <2>1, <2>3 DEF VoltageInv, CodeIsNearest, Signals!CodeIsNearest
<1>2. VoltageInv /\ [PanelNext]_panelVars => VoltageInv'
  <2> SUFFICES ASSUME VoltageInv, [PanelNext]_panelVars PROVE VoltageInv'
    OBVIOUS
  <2>1. CASE UNCHANGED voltages
    BY <2>1 DEF voltages, VoltageInv, CodeIsNearest, Signals!CodeIsNearest
  <2>2. ASSUME NEW v \in Volts, Signals!Convert(v)
        PROVE  VoltageInv'
    <3> DEFINE fromJack == Signals!clamp(jackRange, v)
               wanted == Signals!clamp(cvRange, fromJack)
    <3>1. /\ v \in Int
          /\ jackRange.minimum \in Int /\ jackRange.maximum \in Int
          /\ cvRange.minimum \in Int /\ cvRange.maximum \in Int
          /\ jackRange.minimum <= jackRange.maximum /\ cvRange.minimum <= cvRange.maximum
          /\ jackRange.minimum <= cvRange.maximum /\ cvRange.minimum <= jackRange.maximum
      BY PanelAssumption
      DEF PanelAssumption, Signals!SignalAssumption, VoltageInv
    <3>2. /\ UNCHANGED <<jackRange, cvRange, calibration>> /\ applied' = v
          /\ jack' = [effective |-> fromJack, changed |-> fromJack # jack.effective,
                      belowRange |-> v < jackRange.minimum,
                      aboveRange |-> v > jackRange.maximum]
      BY <2>2 DEF Signals!Convert, Signals!throughJack
    <3>3. volts' = wanted /\ code' = Signals!voltsToCode(calibration, wanted)
      BY <2>2, <3>2 DEF Signals!Convert, Signals!throughCv
    <3>4. fromJack \in Int /\ wanted \in Int
      BY <3>1 DEF Signals!clamp, Signals!Between
    <3>5. wanted = v <=> ~(v < jackRange.minimum \/ v > jackRange.maximum) /\ wanted = fromJack
      BY <3>1 DEF Signals!clamp, Signals!Between
    <3> HIDE DEF fromJack, wanted
    <3>6. calibration \in Line
      BY DEF VoltageInv
    <3>7. /\ code'.code \in 0 .. calibration.maximumCode
          /\ \A n \in 0 .. calibration.maximumCode :
                 Signals!Magnitude(Signals!codeToVolts(calibration, code'.code) - wanted)
                     <= Signals!Magnitude(Signals!codeToVolts(calibration, n) - wanted)
          /\ code'.belowRange \/ code'.aboveRange =>
                 \A n \in 0 .. calibration.maximumCode :
                     Signals!codeToVolts(calibration, n) # wanted
      BY <3>3, <3>4, <3>6, NearestCode
    <3>8. Signals!clamp(cvRange', Signals!clamp(jackRange', applied')) = wanted
      BY <3>2 DEF wanted, fromJack
    <3>9. wanted = applied' <=>
              ~(jack'.belowRange \/ jack'.aboveRange) /\ volts' = jack'.effective
      BY <3>2, <3>3, <3>5
    <3>10. CodeIsNearest'
      BY <3>2, <3>7, <3>8, <3>9 DEF CodeIsNearest, Signals!CodeIsNearest
    <3> QED
      BY <3>2, <3>6, <3>10 DEF VoltageInv
  <2> QED
    BY <2>1, <2>2, SignalSteps DEF Signals!VoltageNext
<1>3. VoltageInv => CodeIsNearest
  BY DEF VoltageInv
<1> QED
  BY <1>1, <1>2, <1>3, PTL DEF PanelSpec

-----------------------------------------------------------------------------
(***************************************************************************)
(* Positions.                                                              *)
(***************************************************************************)
(***************************************************************************)
(* A smoothed movement goes towards its target and not beyond it; if the   *)
(* target is far enough away, it goes some way; and if it stays below a    *)
(* deadband, the target is not far.                                        *)
(***************************************************************************)
LEMMA Smoothing ==
    ASSUME NEW way \in Int, NEW s \in Nat \ {0}, NEW m \in Int,
           m = way \div s \/ (way % s # 0 /\ m = (way \div s) + 1)
    PROVE  /\ way >= 0 => 0 <= m /\ m <= way
           /\ way < 0 => way <= m /\ m <= 0
           /\ Signals!Magnitude(way) >= s => Signals!Magnitude(m) >= 1
           /\ \A d \in Nat : Signals!Magnitude(m) < d => Signals!Magnitude(way) <= d * s
<1> DEFINE q == way \div s
           r == way % s
<1>1. q \in Int /\ r \in 0 .. s - 1 /\ way = s * q + r
  BY Division
<1>2. m = q \/ (r # 0 /\ m = q + 1)
  OBVIOUS
<1> HIDE DEF q, r
<1>3. s * q = q * s /\ q * s \in Int
  BY <1>1
<1>4. way = q * s + r
  BY <1>1, <1>3
<1>5. q <= -1 => q * s <= -s
  <2>1. q <= -1 => q * s <= (-1) * s
    BY <1>1, Products
  <2>2. (-1) * s = -s
    OBVIOUS
  <2> QED
    BY <2>1, <2>2
<1>6. q <= -2 => q * s <= -2 * s
  BY <1>1, Products
<1>7. q >= 0 => q <= q * s
  <2>1. q >= 0 => 1 * q <= s * q
    BY <1>1, Products
  <2> QED
    BY <1>1, <1>3, <2>1
<1>8. q < 0 => q * s <= q
  <2>1. q < 0 => 1 * (-q) <= s * (-q)
    <3>1. q < 0 => -q \in Nat
      BY <1>1
    <3> QED
      BY <1>1, <3>1, Products
  <2>2. s * (-q) = -(q * s)
    BY <1>1
  <2> QED
    BY <1>1, <1>3, <2>1, <2>2
<1>9. q >= 0 <=> way >= 0
  BY <1>1, <1>3, <1>4, <1>5, <1>7
<1>10. way >= 0 => 0 <= m /\ m <= way
  BY <1>1, <1>2, <1>3, <1>4, <1>7, <1>9
<1>11. way < 0 => way <= m /\ m <= 0
  <2> SUFFICES ASSUME way < 0 PROVE way <= m /\ m <= 0
    OBVIOUS
  <2>1. q <= -1
    BY <1>1, <1>9
  <2>2. q = -1 => q * s = -s
    OBVIOUS
  <2> QED
    BY <1>1, <1>2, <1>3, <1>4, <1>6, <1>8, <2>1, <2>2
<1>12. Signals!Magnitude(way) >= s => Signals!Magnitude(m) >= 1
  <2> SUFFICES ASSUME Signals!Magnitude(way) >= s PROVE Signals!Magnitude(m) >= 1
    OBVIOUS
  <2>1. q = 0 => q * s = 0
    OBVIOUS
  <2>2. q = -1 => q * s = -s
    OBVIOUS
  <2>3. CASE way >= 0
    <3>1. q >= 1
      BY <1>1, <1>4, <1>9, <2>1, <2>3 DEF Signals!Magnitude
    <3> QED
      BY <1>1, <1>2, <3>1 DEF Signals!Magnitude
  <2>4. CASE way < 0
    <3>1. q <= -1
      BY <1>1, <1>9, <2>4
    <3>2. r # 0 => q # -1
      BY <1>1, <1>3, <1>4, <2>2, <2>4 DEF Signals!Magnitude
    <3> QED
      BY <1>1, <1>2, <3>1, <3>2 DEF Signals!Magnitude
  <2> QED
    BY <2>3, <2>4
<1>13. ASSUME NEW d \in Nat, Signals!Magnitude(m) < d
       PROVE  Signals!Magnitude(way) <= d * s
  <2>1. d * s \in Int
    OBVIOUS
  <2>2. CASE way >= 0
    <3>1. q + 1 <= d
      BY <1>1, <1>2, <1>9, <1>13, <2>2 DEF Signals!Magnitude
    <3>2. (q + 1) * s <= d * s
      BY <1>1, <3>1, Products
    <3>3. (q + 1) * s = q * s + s
      BY <1>1
    <3> QED
      BY <1>1, <1>3, <1>4, <2>1, <2>2, <3>2, <3>3 DEF Signals!Magnitude
  <2>3. CASE way < 0
    <3>1. -q <= d
      BY <1>1, <1>2, <1>9, <1>13, <2>3 DEF Signals!Magnitude
    <3>2. (-q) * s <= d * s
      BY <1>1, <3>1, Products
    <3>3. (-q) * s = -(q * s)
      BY <1>1
    <3> QED
      BY <1>1, <1>3, <1>4, <2>1, <2>3, <3>2, <3>3 DEF Signals!Magnitude
  <2> QED
    BY <2>2, <2>3
<1> QED
  BY <1>10, <1>11, <1>12, <1>13

(***************************************************************************)
(* Both classes normalize a code alike, to a position between 0 and 1.     *)
(***************************************************************************)
LEMMA Normals ==
    ASSUME control \in Controls, NEW raw \in 0 .. MaxRaw
    PROVE  /\ Signals!normalize(raw) = Signals!AnalogInputNormalized(raw)
           /\ Signals!normalize(raw) \in 0 .. Unit
<1> DEFINE low == control.rawMinimum
           n == control.rawMaximum - control.rawMinimum
           x == Signals!Between(low, raw, control.rawMaximum) - low
           q == (x * Unit) \div n
           r == (x * Unit) % n
<1>1. /\ low \in Nat /\ n \in Nat \ {0} /\ Unit \in Nat /\ raw \in Nat
      /\ control.rawMaximum \in Nat
      /\ control.rawMinimum < control.rawMaximum /\ control.inverted \in BOOLEAN
  <2>1. \A c \in Controls : c.rawMinimum \in Nat /\ c.rawMinimum < c.rawMaximum
                            /\ c.rawMaximum \in Nat /\ c.inverted \in BOOLEAN
    BY PanelAssumption DEF PanelAssumption, Signals!SignalAssumption
  <2>2. Unit \in Nat /\ MaxRaw \in Nat
    BY PanelAssumption DEF PanelAssumption, Signals!SignalAssumption
  <2> QED
    BY <2>1, <2>2
<1>2. x \in 0 .. n
  BY <1>1 DEF Signals!Between
<1> HIDE DEF x
<1>3. x * Unit \in Int /\ x * Unit >= 0 /\ x * Unit <= n * Unit
  BY <1>1, <1>2, Products
<1>4. q \in Int /\ r \in 0 .. n - 1 /\ x * Unit = n * q + r
  BY <1>1, <1>3, Division
<1> HIDE DEF q, r, n
<1>5. n * q = q * n /\ n * Unit = Unit * n /\ q * n \in Int /\ Unit * n \in Int
  BY <1>1, <1>4
<1>6. q >= 0
  <2>1. q <= -1 => q * n <= (-1) * n
    BY <1>1, <1>4, Products
  <2>2. (-1) * n = -n
    BY <1>1
  <2> QED
    BY <1>1, <1>3, <1>4, <1>5, <2>1, <2>2
<1>7. q <= Unit
  <2>1. q >= Unit + 1 => (Unit + 1) * n <= q * n
    BY <1>1, <1>4, Products
  <2>2. (Unit + 1) * n = Unit * n + n
    BY <1>1
  <2> QED
    BY <1>1, <1>3, <1>4, <1>5, <2>1, <2>2
<1>8. Signals!AnalogInputNormalized(raw) = IF control.inverted THEN Unit - q ELSE q
  BY DEF Signals!AnalogInputNormalized, q, x, n
<1>9. Signals!normalize(raw) = IF control.inverted THEN Unit - q ELSE q
  <2>1. (IF control.rawMaximum > control.rawMinimum THEN control.rawMaximum
         ELSE control.rawMinimum + 1) = control.rawMaximum
    BY <1>1 DEF n
  <2> QED
    BY <2>1 DEF Signals!normalize, q, x, n
<1> QED
  BY <1>1, <1>4, <1>6, <1>7, <1>8, <1>9

PotentiometerObject == [normalized : 0 .. Unit, changed : BOOLEAN, initialized : BOOLEAN]

Away == Signals!Magnitude(position - potentiometer.normalized)
AtRest == Away <= control.deadband * control.slowness \/ Away < control.slowness

(***************************************************************************)
(* Until it is at rest, every sample of an input that stands still brings  *)
(* the potentiometer at least one step nearer.                             *)
(***************************************************************************)
FollowInv ==
    /\ control \in Controls
    /\ potentiometer \in PotentiometerObject
    /\ position \in 0 .. Unit /\ least \in Int /\ most \in Int
    /\ still \in 0 .. Settled
    /\ potentiometer.initialized =>
           /\ least <= position /\ position <= most
           /\ least <= potentiometer.normalized /\ potentiometer.normalized <= most
           /\ AtRest \/ Away + still <= Unit

LEMMA ControlTypes ==
    ASSUME control \in Controls
    PROVE  /\ control.deadband \in Nat /\ control.slowness \in Nat \ {0}
           /\ Unit \in Nat \ {0} /\ Settled \in Nat
           /\ control.deadband * control.slowness \in Nat
<1>1. \A c \in Controls : c.deadband \in 0 .. Unit /\ c.slowness \in Nat \ {0}
  BY PanelAssumption DEF PanelAssumption, Signals!SignalAssumption
<1>2. Unit \in Nat \ {0} /\ Settled \in Nat
  BY PanelAssumption DEF PanelAssumption, Signals!SignalAssumption
<1>3. control.deadband \in Nat /\ control.slowness \in Nat \ {0}
  BY <1>1, <1>2
<1> QED
  BY <1>2, <1>3

LEMMA FollowsFromReset ==
    ASSUME FollowInv, NEW raw \in 0 .. MaxRaw, control' = control,
           potentiometer' = Signals!Reset(raw), Signals!Observed(raw, TRUE)
    PROVE  FollowInv'
<1> DEFINE at == Signals!AnalogInputNormalized(raw)
<1>1. at \in 0 .. Unit /\ Signals!normalize(raw) = at
  BY Normals DEF FollowInv
<1>2. /\ control.deadband \in Nat /\ control.slowness \in Nat \ {0}
      /\ Unit \in Nat \ {0} /\ Settled \in Nat
      /\ control \in Controls
  BY ControlTypes DEF FollowInv
<1>3. position' = at /\ least' = at /\ most' = at /\ still' = 0
  BY DEF Signals!Observed
<1> HIDE DEF at
<1>4. potentiometer' \in PotentiometerObject /\ potentiometer'.normalized = at
  BY <1>1 DEF Signals!Reset, PotentiometerObject
<1>5. Away' = 0
  <2>1. at - at = 0
    BY <1>1
  <2> QED
    BY <1>3, <1>4, <2>1 DEF Away, Signals!Magnitude
<1>6. AtRest'
  BY <1>2, <1>5 DEF AtRest
<1>7. at \in Int /\ at <= at /\ 0 \in 0 .. Settled
  BY <1>1, <1>2
<1> QED
  BY <1>1, <1>2, <1>3, <1>4, <1>6, <1>7 DEF FollowInv

(***************************************************************************)
(* One movement, from a distance to the next.                              *)
(***************************************************************************)
LEMMA OneMovement ==
    ASSUME NEW at \in Int, NEW from \in Int, NEW m \in Int,
           NEW s \in Nat \ {0}, NEW d \in Nat,
           m = (at - from) \div s
               \/ ((at - from) % s # 0 /\ m = ((at - from) \div s) + 1)
    PROVE  /\ from <= at => from <= from + m /\ from + m <= at
           /\ at <= from => at <= from + m /\ from + m <= from
           /\ Signals!Magnitude(at - (from + m)) <= Signals!Magnitude(at - from)
           /\ Signals!Magnitude(at - from) >= s =>
                  Signals!Magnitude(at - (from + m)) + 1 <= Signals!Magnitude(at - from)
           /\ Signals!Magnitude(m) < d => Signals!Magnitude(at - from) <= d * s
<1> DEFINE way == at - from
<1>1. way \in Int /\ from + m = at - (way - m) /\ at - (from + m) = way - m
  OBVIOUS
<1>2. /\ way >= 0 => 0 <= m /\ m <= way
      /\ way < 0 => way <= m /\ m <= 0
      /\ Signals!Magnitude(way) >= s => Signals!Magnitude(m) >= 1
      /\ Signals!Magnitude(m) < d => Signals!Magnitude(way) <= d * s
  BY <1>1, Smoothing
<1>3. Signals!Magnitude(way - m) <= Signals!Magnitude(way)
  BY <1>1, <1>2 DEF Signals!Magnitude
<1>4. Signals!Magnitude(way) >= s =>
          Signals!Magnitude(way - m) + 1 <= Signals!Magnitude(way)
  BY <1>1, <1>2 DEF Signals!Magnitude
<1>5. from <= at => from <= from + m /\ from + m <= at
  BY <1>2
<1>6. at <= from => at <= from + m /\ from + m <= from
  BY <1>2
<1> QED
  BY <1>1, <1>2, <1>3, <1>4, <1>5, <1>6

LEMMA FollowsFromUpdate ==
    ASSUME FollowInv, NEW raw \in 0 .. MaxRaw, control' = control,
           potentiometer.initialized,
           NEW m \in Signals!Movements(Signals!normalize(raw)),
           potentiometer' = [potentiometer EXCEPT
                                 !.changed = Signals!Moves(m),
                                 !.normalized = IF Signals!Moves(m) THEN @ + m ELSE @],
           Signals!Observed(raw, FALSE)
    PROVE  FollowInv'
<1> DEFINE at == Signals!AnalogInputNormalized(raw)
           from == potentiometer.normalized
           next == potentiometer'.normalized
           s == control.slowness
           d == control.deadband
           moves == Signals!Moves(m)
<1>1. at \in 0 .. Unit /\ Signals!normalize(raw) = at
  BY Normals DEF FollowInv
<1>2. d \in Nat /\ s \in Nat \ {0} /\ Unit \in Nat /\ Settled \in Nat /\ d * s \in Nat
  BY ControlTypes DEF FollowInv
<1>3. /\ from \in 0 .. Unit /\ position \in 0 .. Unit /\ least \in Int /\ most \in Int
      /\ still \in 0 .. Settled /\ potentiometer \in PotentiometerObject
      /\ least <= position /\ position <= most /\ least <= from /\ from <= most
      /\ Away <= d * s \/ Away < s \/ Away + still <= Unit
      /\ control \in Controls
  BY DEF FollowInv, PotentiometerObject, AtRest
<1>4. /\ position' = at
      /\ least' = IF at < least THEN at ELSE least
      /\ most' = IF at > most THEN at ELSE most
      /\ still' = IF at # position THEN 0
                  ELSE IF still = Settled THEN still ELSE still + 1
  BY DEF Signals!Observed
<1>5. m \in Int /\ (m = (at - from) \div s
                    \/ ((at - from) % s # 0 /\ m = ((at - from) \div s) + 1))
  BY <1>1, <1>2, <1>3 DEF Signals!Movements
<1>6. moves = (Signals!Magnitude(m) >= d)
  BY DEF Signals!Moves
<1> HIDE DEF at, moves
<1>7. moves \in BOOLEAN
  BY <1>6
<1>8. /\ next = IF moves THEN from + m ELSE from
      /\ potentiometer' = [potentiometer EXCEPT !.changed = moves, !.normalized = next]
  BY <1>3 DEF moves, PotentiometerObject
<1> HIDE DEF next, from, s, d
<1>9. /\ from <= at => from <= from + m /\ from + m <= at
      /\ at <= from => at <= from + m /\ from + m <= from
      /\ Signals!Magnitude(at - (from + m)) <= Signals!Magnitude(at - from)
      /\ Signals!Magnitude(at - from) >= s =>
             Signals!Magnitude(at - (from + m)) + 1 <= Signals!Magnitude(at - from)
      /\ Signals!Magnitude(m) < d => Signals!Magnitude(at - from) <= d * s
  BY <1>1, <1>2, <1>3, <1>5, OneMovement
<1>10. next \in 0 .. Unit /\ least' <= next /\ next <= most'
  BY <1>1, <1>2, <1>3, <1>4, <1>5, <1>8, <1>9
<1>11. potentiometer' \in PotentiometerObject
  BY <1>3, <1>7, <1>8, <1>10 DEF PotentiometerObject
<1>12. /\ position' \in 0 .. Unit /\ least' \in Int /\ most' \in Int /\ still' \in 0 .. Settled
       /\ least' <= position' /\ position' <= most'
  BY <1>1, <1>2, <1>3, <1>4
<1>13. Away' = Signals!Magnitude(at - next) /\ Away = Signals!Magnitude(position - from)
  BY <1>4 DEF Away, next, from
<1>14. AtRest' <=> Away' <= d * s \/ Away' < s
  BY DEF AtRest, d, s
<1>15. AtRest' \/ Away' + still' <= Unit
  <2>1. CASE ~moves
    <3>0. Signals!Magnitude(m) \in Int
      BY <1>5 DEF Signals!Magnitude
    <3>1. ~(Signals!Magnitude(m) >= d)
      BY <1>6, <2>1
    <3>2. Signals!Magnitude(at - from) <= d * s
      BY <1>2, <1>9, <3>0, <3>1
    <3> QED
      BY <1>8, <1>13, <1>14, <2>1, <3>2
  <2>2. CASE moves /\ Signals!Magnitude(at - from) < s
    <3>1. next = from + m
      BY <1>8, <2>2
    <3>2. Signals!Magnitude(at - from) \in Int /\ Signals!Magnitude(at - next) \in Int
      BY <1>1, <1>3, <1>10 DEF Signals!Magnitude
    <3> QED
      BY <1>2, <1>9, <1>13, <1>14, <2>2, <3>1, <3>2
  <2>3. CASE moves /\ Signals!Magnitude(at - from) >= s
    <3>1. next = from + m
      BY <1>8, <2>3
    <3>2. /\ Signals!Magnitude(at - from) \in Int /\ Signals!Magnitude(at - next) \in Int
          /\ Signals!Magnitude(at - next) + 1 <= Signals!Magnitude(at - from)
      BY <1>1, <1>3, <1>9, <1>10, <2>3, <3>1 DEF Signals!Magnitude
    <3>3. CASE at = position
      <4>1. Away = Signals!Magnitude(at - from)
        BY <1>13, <3>3
      <4>2. still' <= still + 1
        BY <1>3, <1>2, <1>4, <3>3
      <4>3. Away' + 1 <= Away
        BY <1>13, <3>2, <4>1
      <4>4. Away \in Int /\ Away' \in Int
        BY <1>13, <3>2, <4>1
      <4> HIDE DEF Away
      <4> QED
        BY <1>2, <1>3, <1>12, <1>14, <4>2, <4>3, <4>4
    <3>4. CASE at # position
      <4>1. still' = 0
        BY <1>4, <3>4
      <4>2. Signals!Magnitude(at - next) <= Unit
        BY <1>1, <1>2, <1>10 DEF Signals!Magnitude
      <4> QED
        BY <1>13, <3>2, <4>1, <4>2
    <3> QED
      BY <3>3, <3>4
  <2>4. Signals!Magnitude(at - from) \in Int
    BY <1>1, <1>3 DEF Signals!Magnitude
  <2> QED
    BY <1>2, <1>7, <2>1, <2>2, <2>3, <2>4
<1>16. control' \in Controls
  BY <1>3
<1> QED
  BY <1>10, <1>11, <1>12, <1>15, <1>16 DEF FollowInv, next

(***************************************************************************)
(* Smoothing overshoots nowhere, and a potentiometer whose input stands    *)
(* still comes as near to it as its deadband allows: in every              *)
(* configuration, for every sequence of samples.  After as many samples as *)
(* there are positions it must be at rest, whichever way each movement was *)
(* rounded; counting fewer would ask too much of it.                       *)
(***************************************************************************)
THEOREM KnobFollows ==
    ASSUME Unit <= Settled
    PROVE  PanelSpec => []KnobFollowsInput
<1>1. PanelInit => FollowInv
  <2> SUFFICES ASSUME PanelInit PROVE FollowInv
    OBVIOUS
  <2>1. /\ control \in Controls /\ position = 0 /\ least = 0 /\ most = 0 /\ still = 0
        /\ potentiometer = [normalized |-> 0, changed |-> FALSE, initialized |-> FALSE]
    BY DEF PanelInit, Start, Signals!PositionInit
  <2>2. Unit \in Nat /\ Settled \in Nat
    BY <2>1, ControlTypes
  <2>3. potentiometer \in PotentiometerObject /\ ~potentiometer.initialized
    BY <2>1, <2>2 DEF PotentiometerObject
  <2> QED
    BY <2>1, <2>2, <2>3 DEF FollowInv
<1>2. FollowInv /\ [PanelNext]_panelVars => FollowInv'
  <2> SUFFICES ASSUME FollowInv, [PanelNext]_panelVars PROVE FollowInv'
    OBVIOUS
  <2>1. CASE UNCHANGED positions
    BY <2>1 DEF positions, FollowInv, AtRest, Away
  <2>2. ASSUME NEW raw \in 0 .. MaxRaw, Signals!resetKnob(raw)
        PROVE  FollowInv'
    BY <2>2, FollowsFromReset DEF Signals!resetKnob
  <2>3. ASSUME NEW raw \in 0 .. MaxRaw, Signals!updateKnob(raw)
        PROVE  FollowInv'
    <3>1. potentiometer.initialized \in BOOLEAN
      BY DEF FollowInv, PotentiometerObject
    <3>2. CASE ~potentiometer.initialized
      BY <2>3, <3>2, FollowsFromReset DEF Signals!updateKnob
    <3>3. CASE potentiometer.initialized
      BY <2>3, <3>3, FollowsFromUpdate DEF Signals!updateKnob
    <3> QED
      BY <3>1, <3>2, <3>3
  <2> QED
    BY <2>1, <2>2, <2>3, SignalSteps DEF Signals!PositionNext
<1>3. FollowInv => KnobFollowsInput
  <2> SUFFICES ASSUME FollowInv, potentiometer.initialized
               PROVE  /\ least <= potentiometer.normalized /\ potentiometer.normalized <= most
                      /\ still = Settled => AtRest
    BY DEF KnobFollowsInput, Signals!KnobFollowsInput, AtRest, Away
  <2>1. /\ control.deadband \in Nat /\ control.slowness \in Nat \ {0}
        /\ Unit \in Nat \ {0} /\ Settled \in Nat
    BY ControlTypes DEF FollowInv
  <2>2. Away \in Nat
    BY DEF FollowInv, PotentiometerObject, Away, Signals!Magnitude
  <2>3. AtRest \/ Away + still <= Unit
    BY DEF FollowInv
  <2>4. still = Settled /\ Away + still <= Unit => Away = 0
    BY <2>1, <2>2
  <2>5. Away = 0 => AtRest
    BY <2>1 DEF AtRest
  <2> QED
    BY <2>3, <2>4, <2>5 DEF FollowInv
<1> QED
  BY <1>1, <1>2, <1>3, PTL DEF PanelSpec
=============================================================================
