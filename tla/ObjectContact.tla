---------------------------- MODULE ObjectContact ----------------------------
(***************************************************************************)
(* PerFingerObjectContact (object_contact.py): a finger that closes on an  *)
(* object is found by its load and lack of progress, held with a small     *)
(* preload, and let go when the operator opens the hand or the load is     *)
(* gone.  One finger with one flexion joint; larger angles close.          *)
(*                                                                         *)
(* Angles are small integers: the intent deadband is less than one, and    *)
(* so is the closing gain times the range.  Times count updates.  What a   *)
(* window of samples says of progress and intent is a choice, taken only   *)
(* with a full window.  The reference that the contact anchors give        *)
(* (mapped) is a choice between the limits that the code clips it to.      *)
(***************************************************************************)
EXTENDS Integers, FiniteSetsExt

CONSTANTS
  ErrorDeg,      \* error_deg: the error of a blocked joint
  Hold,          \* hold_s; fast_hold_s is one update
  Grace,         \* evidence_grace_s
  ReleaseHold,   \* release_hold_s
  Window,        \* updates until the window is full
  Preload,       \* preload_deg; min_preload_deg is 0
  YieldStep,     \* yield_rate_deg_s, per update
  ResumeStep,    \* resume_rate_deg_s, per update
  ReleaseOpen    \* release_open_deg

(* ObjectContactConfig wants its times, rates and thresholds positive.     *)
ContactConfig ==
  /\ {Hold, Window, YieldStep, ResumeStep, ReleaseOpen, ErrorDeg} \subseteq Nat \ {0}
  /\ {Grace, ReleaseHold, Preload} \subseteq Nat

ASSUME ContactAssumption == ContactConfig

None == -1
Later(age, cap) == IF age = None \/ age = cap THEN age ELSE age + 1
Least(a, b)     == IF a < b THEN a ELSE b
Most(a, b)      == IF a > b THEN a ELSE b
Dist(a, b)      == Most(a - b, b - a)

(* Loads: below the release current, around the contact current and the    *)
(* soft threshold of the current guard, from its hard and its trip one.    *)
Quiet == 0
Soft  == 1
Hard  == 2
Trip  == 3
Loads == Quiet..Trip

NoContact ==
  [state |-> "FREE", pending |-> None, evidence |-> None, quiet |-> None,
   progressed |-> FALSE, peak |-> None, openDesired |-> None, openEffective |-> None,
   resume |-> None, unloaded |-> FALSE, released |-> ReleaseHold,
   samples |-> 0, last |-> None]

ContactType ==
  [state : {"FREE", "CONTACT_PENDING", "CONTACT_HOLD"}, pending : None..Hold,
   evidence : None..(Grace + 1), quiet : None..ReleaseHold, progressed : BOOLEAN,
   peak : Int, openDesired : Int, openEffective : Int, resume : Int,
   unloaded : BOOLEAN, released : 0..ReleaseHold, samples : 0..Window, last : Int]

(* Another state gets another reason. *)
Enter(c, s) == IF c.state = s THEN c ELSE [c EXCEPT !.state = s, !.unloaded = FALSE]

(* A period passes; with an update it adds a sample. *)
AgedContact(c) ==
  [c EXCEPT !.pending = Later(@, Hold), !.evidence = Later(@, Grace + 1),
            !.quiet = Later(@, ReleaseHold), !.released = Later(@, ReleaseHold)]

Sampled(c) == [AgedContact(c) EXCEPT !.samples = Later(@, Window)]

(* A gap confirms nothing: contacts stay, whatever was in progress goes. *)
AfterGap(c) ==
  [IF c.state = "CONTACT_PENDING" THEN Enter(c, "FREE") ELSE c EXCEPT
     !.pending = None, !.evidence = None, !.quiet = None, !.progressed = FALSE,
     !.released = ReleaseHold, !.samples = 1, !.last = None]

Closes(c, desired) == c.last # None /\ desired > c.last
Opens(c, desired)  == c.last # None /\ desired < c.last

(***************************************************************************)
(* Evidence: the finger is blocked.  Ordinary evidence needs an operator   *)
(* who closes, a high load or a rising current does not.                   *)
(***************************************************************************)
ClearOpening(c, in) == IF in.desired < in.measured THEN {TRUE}
                       ELSE IF c.samples = Window THEN BOOLEAN ELSE {FALSE}

Evidence(c, in, opening) ==
  IF \/ opening \/ c.samples < Window \/ c.released < ReleaseHold
     \/ in.load = Quiet \/ in.out - in.measured < ErrorDeg
  THEN {"none"}
  ELSE {"none", "fast"} \cup (IF in.desired >= in.out THEN {"slow"} ELSE {})

Cleared(c, opening) ==
  IF opening \/ c.evidence > Grace
  THEN Enter([c EXCEPT !.pending = None, !.evidence = None], "FREE") ELSE c

Pending(c) ==
  Enter([c EXCEPT !.evidence = 0, !.pending = Most(@, 0)], "CONTACT_PENDING")

Latched(c, in) ==
  Enter([c EXCEPT !.peak = in.desired, !.openDesired = None,
                  !.openEffective = None, !.resume = None], "CONTACT_HOLD")

HoldTime(e) == IF e = "fast" THEN 1 ELSE Hold

Confirm(c, in, opening, e) ==
  LET p == Pending(Cleared(c, opening))
  IN IF c.state = "CONTACT_HOLD" THEN c
     ELSE IF e = "none" THEN Cleared(c, opening)
     ELSE IF p.pending >= HoldTime(e) THEN Latched(p, in) ELSE p

(***************************************************************************)
(* CONTACT_HOLD: where the operator started to open, and what the finger   *)
(* is commanded meanwhile.  peak_desired, which the code keeps up to date  *)
(* while the operator opens and replaces when that ends, is None then.     *)
(***************************************************************************)
FollowOperator(c, in) ==
  LET r    == IF c.openDesired # None /\ Closes(c, in.desired)
              THEN [c EXCEPT !.openDesired = None, !.openEffective = None, !.peak = c.last]
              ELSE c
      peak == Most(r.peak, in.desired)
  IN IF r.openDesired # None THEN r
     ELSE IF peak > in.desired
     THEN [r EXCEPT !.peak = None, !.openDesired = peak, !.openEffective = in.out]
     ELSE [r EXCEPT !.peak = peak]

Preloads(load) == CASE load = Quiet -> {Preload} [] load = Soft -> 0..Preload
                    [] OTHER -> {0}

(* Mutant of Mapped: the reference may pull the finger past the object. *)
MappedAnywhere(in, p) == 0..(in.measured + p)

(* Never more than the preload ahead of the measured pose, never behind    *)
(* both it and the setpoint in force.                                      *)
Mapped(in, p) == Least(in.out, in.measured + p)..(in.measured + p)

Opened(c, in) == c.openDesired # None /\ c.openDesired > in.desired

HeldTarget(c, in, mapped) ==
  LET bounded == Most(mapped, in.out - YieldStep)
  IN Least(in.soft, IF Opened(c, in)
                    THEN Least(bounded, c.openEffective + in.desired - c.openDesired)
                    ELSE bounded)

Quieted(c, in, progress) ==
  IF in.load = Quiet /\ in.out = in.measured
  THEN [c EXCEPT !.quiet = Most(@, 0), !.progressed = @ \/ progress]
  ELSE [c EXCEPT !.quiet = None, !.progressed = FALSE]

Release(c, in, target, unloaded) ==
  [NoContact EXCEPT !.unloaded = unloaded, !.samples = c.samples,
                    !.resume = Most(in.desired - target, 0), !.released = 0]

HoldOutcome(c, in, mapped, progress) ==
  LET f      == FollowOperator(c, in)
      target == HeldTarget(f, in, mapped)
      q      == Quieted(f, in, progress)
      opened == Opened(q, in) /\ q.openDesired - in.desired >= ReleaseOpen
      unload == q.quiet >= ReleaseHold /\ q.progressed
  IN [target |-> target, limited |-> TRUE,
      contact |-> IF opened \/ unload THEN Release(q, in, target, ~opened) ELSE q]

(* Mutant of ResumeTarget: a closing operator is followed at once. *)
ResumeTargetAtOnce(in, offset) == Least(in.soft, in.desired - offset)

ResumeTarget(in, offset) ==
  Least(Least(in.soft, in.desired - offset), in.out + ResumeStep)

(***************************************************************************)
(* After a release the offset to the operator shrinks slowly, and only     *)
(* while the operator does not open.                                       *)
(***************************************************************************)
ResumeOutcome(c, in) ==
  LET shrinks == ~Opens(c, in.desired) /\ (c.unloaded \/ Closes(c, in.desired))
      offset  == IF shrinks THEN Most(0, c.resume - ResumeStep) ELSE c.resume
      target  == ResumeTarget(in, offset)
  IN [target |-> target, limited |-> TRUE,
      contact |-> [c EXCEPT !.resume = IF offset = 0 /\ in.desired <= target
                                       THEN None ELSE offset]]

Moved(d, in) ==
  IF d.state = "CONTACT_HOLD"
  THEN UNION { { HoldOutcome(d, in, mapped, progress) : mapped \in Mapped(in, p) } :
               p \in Preloads(in.load),
               progress \in IF d.samples = Window THEN BOOLEAN ELSE {FALSE} }
  ELSE IF d.resume # None THEN { ResumeOutcome(d, in) }
  ELSE { [target |-> in.soft, limited |-> FALSE, contact |-> d] }

(* update(): every outcome for what it is given.  The last target is kept  *)
(* where the next update reads it.                                         *)
Remembers(c) == c.openDesired # None \/ c.resume # None

ContactOutcomes(c, in) ==
  { [o EXCEPT !.contact.last = IF Remembers(o.contact) THEN in.desired ELSE None] :
      o \in UNION { UNION { Moved(Confirm(c, in, opening, e), in) :
                              e \in Evidence(c, in, opening) } :
                     opening \in ClearOpening(c, in) } }
=============================================================================
