------------------------------- MODULE Switches -------------------------------
(***************************************************************************)
(* The switches that hold their position, over the debouncer of a          *)
(* momentary button.  OnOffMomentarySwitch is an On-Off-(On) switch with   *)
(* two contacts, sampled together, whose position is derived from the two  *)
(* debounced states.  ToggleSwitch is one maintained contact, and          *)
(* DipSwitchBank an array of them that is sampled as a whole and read as a *)
(* bit mask; a bank of one pole is a toggle switch.                        *)
(***************************************************************************)
EXTENDS Debouncer

CONSTANT Pole        \* 0 .. Count - 1 of a bank

VARIABLE now         \* nowMs of the last call

-----------------------------------------------------------------------------
(***************************************************************************)
(* OnOffMomentarySwitch.  The durations and the transition counts of its   *)
(* debouncers are not used by it and are left out.                         *)
(***************************************************************************)
Contacts == {"maintained", "momentary"}

VARIABLES
    debouncer,   \* maintained_ and momentary_
    snapshot,    \* snapshot_
    level,       \* history: the last sample of each contact
    steady,      \* history: how long the samples have been what they are,
                 \* counted up to DebounceTime
    overlapped   \* history: a sample had both contacts closed, since the
                 \* last one that had both open

onOffVars == <<now, debouncer, snapshot, level, steady, overlapped>>

Position == {"On", "Off", "MomentaryOn", "Invalid"}

Snapshot == [position : Position, previousPosition : Position,
             changed : BOOLEAN, invalidCombination : BOOLEAN,
             transitionCount : 0 .. CountModulus - 1]

WithoutDurations(b) ==
    [b EXCEPT !.pressedSinceMs = 0, !.heldForMs = 0,
              !.lastPressDurationMs = 0, !.transitionCount = 0]

TypeOK ==
    /\ now \in Time
    /\ debouncer \in [Contacts -> Button]
    /\ snapshot \in Snapshot
    /\ level \in [Contacts -> BOOLEAN]
    /\ steady \in 0 .. DebounceTime
    /\ overlapped \in BOOLEAN

(***************************************************************************)
(* derivePosition().                                                       *)
(***************************************************************************)
derivePosition(closed) ==
    CASE closed["maintained"] /\ closed["momentary"]   -> "Invalid"
      [] closed["maintained"] /\ ~closed["momentary"]  -> "On"
      [] ~closed["maintained"] /\ closed["momentary"]  -> "MomentaryOn"
      [] OTHER                                         -> "Off"

Pressed(d) == [c \in Contacts |-> d[c].pressed]

OnOffInit ==
    /\ now \in Time
    /\ debouncer = [c \in Contacts |-> Constructed]
    /\ snapshot = [position |-> "Off", previousPosition |-> "Off",
                   changed |-> FALSE, invalidCombination |-> FALSE,
                   transitionCount |-> 0]
    /\ level = [c \in Contacts |-> FALSE]
    /\ steady = 0
    /\ overlapped = FALSE

(***************************************************************************)
(* The history of the samples.                                             *)
(***************************************************************************)
Observe(sample, gap) ==
    /\ level' = sample
    /\ steady' = IF sample # level THEN 0
                 ELSE IF steady + gap > DebounceTime THEN DebounceTime
                 ELSE steady + gap
    /\ overlapped' = \/ sample["maintained"] /\ sample["momentary"]
                     \/ overlapped /\ (sample["maintained"] \/ sample["momentary"])

reset(sample, gap) ==
    /\ now' = Later(now, gap)
    /\ debouncer' = [c \in Contacts |-> Fresh(sample[c], now')]
    /\ snapshot' = [position |-> derivePosition(sample),
                    previousPosition |-> derivePosition(sample),
                    changed |-> FALSE,
                    invalidCombination |-> derivePosition(sample) = "Invalid",
                    transitionCount |-> 0]
    /\ level' = sample
    /\ steady' = 0
    /\ overlapped' = (sample["maintained"] /\ sample["momentary"])

\* Faulty: a position that is derived before the momentary contact is sampled.
DerivedTooEarly(d) ==
    derivePosition([Pressed(d) EXCEPT !["momentary"] =
                        debouncer["momentary"].pressed])
NextPosition(d) == derivePosition(Pressed(d))

Counted(n) == (n + 1) % CountModulus

update(sample, gap) ==
    /\ now' = Later(now, gap)
    /\ debouncer' = [c \in Contacts |->
                        WithoutDurations(Sampled(debouncer[c], sample[c], now'))]
    /\ LET next    == NextPosition(debouncer')
           changed == next # snapshot.position
       IN  snapshot' =
             [position |-> next,
              previousPosition |-> IF changed THEN snapshot.position
                                   ELSE snapshot.previousPosition,
              changed |-> changed,
              invalidCombination |-> next = "Invalid",
              transitionCount |-> IF changed THEN Counted(snapshot.transitionCount)
                                  ELSE snapshot.transitionCount]
    /\ Observe(sample, gap)

OnOffNext == \E sample \in [Contacts -> BOOLEAN], gap \in 0 .. MaxGap :
            reset(sample, gap) \/ update(sample, gap)

-----------------------------------------------------------------------------
(***************************************************************************)
(* ToggleSwitch and DipSwitchBank.                                         *)
(***************************************************************************)
VARIABLES
    debouncers,    \* debouncer_ of every pole
    switches,      \* snapshot_ of every pole
    levels,        \* history: the last samples
    steadyFor,     \* history: how long they have been what they are,
                   \* counted up to DebounceTime
    maskBefore,    \* history: bitMask() before the last update()
    origin         \* history: bitMask() after the last reset(), or after the
                   \* first update(), which has the effect of one

switchVars == <<now, debouncers, switches, levels, steadyFor, maskBefore, origin>>

\* The durations are not used by a maintained switch.
Timeless(b) == [b EXCEPT !.pressedSinceMs = 0, !.heldForMs = 0, !.lastPressDurationMs = 0]

bitMask == {p \in Pole : switches[p].on}

Off == [on |-> FALSE, justTurnedOn |-> FALSE, justTurnedOff |-> FALSE,
        transitionCount |-> 0]

SwitchInit ==
    /\ now \in Time
    /\ debouncers = [p \in Pole |-> Constructed]
    /\ switches = [p \in Pole |-> Off]
    /\ levels = [p \in Pole |-> FALSE]
    /\ steadyFor = 0 /\ maskBefore = {} /\ origin = {}

resetBank(sample, gap) ==
    /\ now' = Later(now, gap)
    /\ debouncers' = [p \in Pole |-> Timeless(Fresh(sample[p], now'))]
    /\ switches' = [p \in Pole |-> [Off EXCEPT !.on = debouncers'[p].pressed]]
    /\ levels' = sample /\ steadyFor' = 0
    /\ maskBefore' = bitMask' /\ origin' = bitMask'

\* Faulty: the flags are read before the sample is processed.
FlagsOfLastCall(p, after) ==
    [on |-> after.pressed,
     justTurnedOn |-> debouncers[p].justPressed, justTurnedOff |-> debouncers[p].justReleased,
     transitionCount |-> after.transitionCount]
Derived(p, after) ==
    [on |-> after.pressed,
     justTurnedOn |-> after.justPressed, justTurnedOff |-> after.justReleased,
     transitionCount |-> after.transitionCount]

First == \E p \in Pole : ~debouncers[p].initialized

updateBank(sample, gap) ==
    /\ now' = Later(now, gap)
    /\ debouncers' = [p \in Pole |-> Timeless(Sampled(debouncers[p], sample[p], now'))]
    /\ switches' = [p \in Pole |-> Derived(p, debouncers'[p])]
    /\ levels' = sample
    /\ steadyFor' = IF sample # levels \/ First THEN 0
                    ELSE IF steadyFor + gap > DebounceTime THEN DebounceTime
                    ELSE steadyFor + gap
    /\ maskBefore' = IF First THEN bitMask' ELSE bitMask
    /\ origin' = IF First THEN bitMask' ELSE origin

SwitchNext == \E sample \in [Pole -> BOOLEAN], gap \in 0 .. MaxGap :
                  resetBank(sample, gap) \/ updateBank(sample, gap)

-----------------------------------------------------------------------------
(***************************************************************************)
(* "Both contacts asserted is reported as Invalid because that normally    *)
(* indicates wiring trouble, contact overlap, or an impossible simulated   *)
(* state" (on_off_momentary_switch.hpp): the two debouncers, which accept  *)
(* their changes at different moments, never make Invalid out of a         *)
(* break-before-make switch.  Invalid is entered only if a sample had both *)
(* contacts closed, and none since had both open.                          *)
(***************************************************************************)
InvalidNeedsOverlap ==
    snapshot.changed /\ snapshot.position = "Invalid" => overlapped

(***************************************************************************)
(* Once both contacts have been steady for the debounce time, the position *)
(* is the one they show, however the two debouncers got there.             *)
(***************************************************************************)
PositionSettles ==
    steady = DebounceTime =>
        /\ level["maintained"] <=> snapshot.position \in {"On", "Invalid"}
        /\ level["momentary"] <=> snapshot.position \in {"MomentaryOn", "Invalid"}

(***************************************************************************)
(* The mask of a bank whose poles have been steady for the debounce time   *)
(* is what the switches show, whatever bounced before.  Between two resets *)
(* the mask changes by exactly the poles that report an event, and the     *)
(* transition counts tell by their parity which poles differ from where    *)
(* they were.  A reset, and the first sample, change it without an event.  *)
(***************************************************************************)
MaskIsAnnounced ==
    /\ steadyFor = DebounceTime /\ ~First => bitMask = {p \in Pole : levels[p]}
    /\ \A p \in Pole :
           /\ switches[p].justTurnedOn <=> p \in bitMask \ maskBefore
           /\ switches[p].justTurnedOff <=> p \in maskBefore \ bitMask
           /\ CountModulus % 2 = 0 =>
                  ((switches[p].transitionCount % 2 = 1) <=>
                       ((p \in bitMask) # (p \in origin)))
=============================================================================
