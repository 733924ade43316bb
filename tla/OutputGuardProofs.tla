-------------------------- MODULE OutputGuardProofs --------------------------
(***************************************************************************)
(* For every range, step, hold time and configuration of the contacts: an  *)
(* armed output at a trip load is disarmed in time, no setpoint is further *)
(* than a step from the last, a hard load freezes the motion that adds to  *)
(* it, a held finger is squeezed and eased gently and a released one       *)
(* follows the operator slowly.                                            *)
(***************************************************************************)
EXTENDS OutputGuard, TLAPS

-----------------------------------------------------------------------------
(* The trip timer. *)

Constants ==
  /\ Top \in Nat /\ MaxStep \in Nat \ {0} /\ MinSend \in Nat /\ BlendTicks \in Nat
  /\ TripHold \in Nat \ {0} /\ StallHold \in Nat \ {0} /\ Gap \in Nat
  /\ Hold \in Nat \ {0} /\ Grace \in Nat /\ ReleaseHold \in Nat /\ Window \in Nat \ {0}
  /\ Preload \in Nat /\ YieldStep \in Nat \ {0} /\ ResumeStep \in Nat \ {0}

LEMMA ConstantsTyped == Constants
BY GuardAssumption, ContactAssumption DEF Constants, ShaperConfig, GuardConfig, ContactConfig

(* The trip timer is as old as the overload, which ends with the output.   *)
TimerRuns ==
  /\ mode \in {"off", "armed", "paused"}
  /\ tripping \in None..TripHold /\ blind \in Nat /\ overloaded \in Nat
  /\ overloaded > 0 => /\ mode = "armed" /\ blind = 0
                       /\ overloaded <= tripping + 1 /\ tripping < TripHold

LEMMA TimerStep ==
  ASSUME TimerRuns, [Next]_vars
  PROVE  TimerRuns'
<1> USE ConstantsTyped DEF Constants, TimerRuns, None, Disarm
<1>1. CASE Arm
  BY <1>1 DEF Arm
<1>2. CASE Resume
  BY <1>2 DEF Resume
<1>3. CASE Pause
  BY <1>3 DEF Pause
<1>4. CASE PausedTick
  BY <1>4 DEF PausedTick, Later
<1>5. CASE Stop
  BY <1>5 DEF Stop
<1>6. CASE SendLatest
  <2>1. PICK load \in Loads :
          /\ mode = "armed" /\ blind' = 0
          /\ \E in, g : tripping' = Timer(SinceGap(tripping), OverTrip(in, g), TripHold)
                        /\ in.load = load
          /\ \/ Disarm
             \/ /\ ~(tripping' >= TripHold) /\ UNCHANGED mode
                /\ overloaded' = IF load = Trip THEN Later(overloaded, TripHold + 1) ELSE 0
    BY <1>6 DEF SendLatest, Accepted, Rejected
  <2>2. tripping' = Timer(SinceGap(tripping), load = Trip, TripHold)
    BY <2>1 DEF OverTrip
  <2>3. tripping' = IF load = Trip
                    THEN IF blind > Gap \/ tripping = -1 THEN 0
                         ELSE IF tripping = TripHold THEN tripping ELSE tripping + 1
                    ELSE -1
    BY <2>2 DEF Timer, SinceGap, Later
  <2>4. tripping' \in -1..TripHold
    BY <2>3
  <2>5. CASE Disarm
    BY <2>1, <2>4, <2>5
  <2>6. CASE /\ ~(tripping' >= TripHold) /\ UNCHANGED mode
             /\ overloaded' = IF load = Trip THEN Later(overloaded, TripHold + 1) ELSE 0
    BY <2>1, <2>3, <2>4, <2>6 DEF Later
  <2> QED BY <2>1, <2>5, <2>6
<1>7. CASE UNCHANGED vars
  BY <1>7 DEF vars
<1> QED BY <1>1, <1>2, <1>3, <1>4, <1>5, <1>6, <1>7 DEF Next

(* An armed output is at a trip load for no longer than the hold time,     *)
(* whatever the target does (_trip_started in current_guard.py).           *)
THEOREM OverloadStaysBounded == Spec => []OverloadIsBounded
<1>1. Init => TimerRuns
  BY ConstantsTyped DEF Init, TimerRuns, Constants, None
<1>2. TimerRuns /\ [Next]_vars => TimerRuns'
  BY TimerStep
<1>3. TimerRuns => OverloadIsBounded
  BY ConstantsTyped DEF TimerRuns, OverloadIsBounded, Constants, None
<1> QED BY <1>1, <1>2, <1>3, PTL DEF Spec

-----------------------------------------------------------------------------
(* The contact machine: whatever it is given, it asks for an angle. *)

States == {"FREE", "CONTACT_PENDING", "CONTACT_HOLD"}

InputTyped(in) ==
  in.desired \in Int /\ in.measured \in Int /\ in.out \in Int /\ in.soft \in Int

LEMMA AgesTyped ==
  /\ None \in Int /\ None \in None..Hold /\ None \in None..(Grace + 1)
  /\ None \in None..ReleaseHold /\ 0 \in None..(Grace + 1)
  /\ 0 \in 0..ReleaseHold /\ ReleaseHold \in 0..ReleaseHold /\ 1 \in 0..Window
  /\ \A a \in None..Hold : Later(a, Hold) \in None..Hold /\ Most(a, 0) \in None..Hold
  /\ \A a \in None..(Grace + 1) : Later(a, Grace + 1) \in None..(Grace + 1)
  /\ \A a \in None..ReleaseHold : /\ Later(a, ReleaseHold) \in None..ReleaseHold
                                  /\ Most(a, 0) \in None..ReleaseHold
  /\ \A a \in 0..ReleaseHold : Later(a, ReleaseHold) \in 0..ReleaseHold
  /\ \A a \in 0..Window : Later(a, Window) \in 0..Window
BY ConstantsTyped DEF Constants, None, Later, Most

LEMMA Entered ==
  ASSUME NEW c \in ContactType, NEW s \in States
  PROVE  Enter(c, s) \in ContactType
BY DEF Enter, ContactType, States

LEMMA Aged ==
  ASSUME NEW c \in ContactType
  PROVE  AgedContact(c) \in ContactType /\ Sampled(c) \in ContactType
         /\ AfterGap(c) \in ContactType
<1>1. AgedContact(c) \in ContactType
  BY AgesTyped DEF AgedContact, ContactType
<1>2. Sampled(c) \in ContactType
  BY <1>1, AgesTyped DEF Sampled, ContactType
<1>3. AfterGap(c) \in ContactType
  <2> DEFINE d == IF c.state = "CONTACT_PENDING" THEN Enter(c, "FREE") ELSE c
  <2>1. d \in ContactType
    BY Entered DEF States
  <2> HIDE DEF d
  <2>2. [d EXCEPT !.pending = None, !.evidence = None, !.quiet = None, !.progressed = FALSE,
                  !.released = ReleaseHold, !.samples = 1, !.last = None] \in ContactType
    BY <2>1, AgesTyped DEF ContactType
  <2> QED BY <2>2 DEF AfterGap, d
<1> QED BY <1>1, <1>2, <1>3

LEMMA Confirmed ==
  ASSUME NEW c \in ContactType, NEW in, InputTyped(in), NEW opening, NEW e
  PROVE  Confirm(c, in, opening, e) \in ContactType
<1>1. Cleared(c, opening) \in ContactType
  <2>1. [c EXCEPT !.pending = None, !.evidence = None] \in ContactType
    BY AgesTyped DEF ContactType
  <2> QED BY <2>1, Entered DEF Cleared, States
<1>2. ASSUME NEW d \in ContactType PROVE Pending(d) \in ContactType
  <2>1. [d EXCEPT !.evidence = 0, !.pending = Most(@, 0)] \in ContactType
    BY AgesTyped DEF ContactType
  <2> QED BY <2>1, Entered DEF Pending, States
<1>3. ASSUME NEW d \in ContactType PROVE Latched(d, in) \in ContactType
  <2>1. [d EXCEPT !.peak = in.desired, !.openDesired = None,
                  !.openEffective = None, !.resume = None] \in ContactType
    BY AgesTyped DEF ContactType, InputTyped
  <2> QED BY <2>1, Entered DEF Latched, States
<1> QED BY <1>1, <1>2, <1>3 DEF Confirm

LEMMA Followed ==
  ASSUME NEW c \in ContactType, NEW in, InputTyped(in)
  PROVE  FollowOperator(c, in) \in ContactType
<1> DEFINE r == IF c.openDesired # None /\ Closes(c, in.desired)
                THEN [c EXCEPT !.openDesired = None, !.openEffective = None, !.peak = c.last]
                ELSE c
<1>1. r \in ContactType
  BY AgesTyped DEF ContactType
<1>2. ASSUME NEW d \in ContactType, NEW p \in Int
      PROVE  /\ d.peak \in Int
             /\ [d EXCEPT !.peak = p] \in ContactType
             /\ [d EXCEPT !.peak = None, !.openDesired = p,
                          !.openEffective = in.out] \in ContactType
  BY AgesTyped DEF ContactType, InputTyped
<1>3. Most(r.peak, in.desired) \in Int
  BY <1>1, <1>2 DEF Most, InputTyped
<1> HIDE DEF r
<1> QED BY <1>1, <1>2, <1>3 DEF FollowOperator, r

LEMMA MappedTyped ==
  ASSUME NEW in, InputTyped(in), NEW p \in Preloads(in.load), NEW m \in Mapped(in, p)
  PROVE  m \in Int
<1>1. p \in Int
  BY ConstantsTyped DEF Preloads, Constants
<1>2. Least(in.out, in.measured + p) \in Int /\ in.measured + p \in Int
  BY <1>1 DEF Least, InputTyped
<1> QED BY <1>2 DEF Mapped

LEMMA Held ==
  ASSUME NEW c \in ContactType, NEW in, InputTyped(in), NEW mapped \in Int,
         NEW progress \in BOOLEAN
  PROVE  /\ HoldOutcome(c, in, mapped, progress).contact \in ContactType
         /\ HoldOutcome(c, in, mapped, progress).target \in Int
         /\ HoldOutcome(c, in, mapped, progress).limited = TRUE
<1> DEFINE f == FollowOperator(c, in)
           t == HeldTarget(f, in, mapped)
           q == Quieted(f, in, progress)
           opened == Opened(q, in) /\ q.openDesired - in.desired >= ReleaseOpen
<1>1. f \in ContactType
  BY Followed
<1>2. t \in Int
  <2> HIDE DEF f
  <2>1. f.openEffective \in Int /\ f.openDesired \in Int
    BY <1>1 DEF ContactType
  <2> QED BY <2>1, ConstantsTyped DEF HeldTarget, InputTyped, Least, Most, Constants
<1>3. q \in ContactType
  <2> HIDE DEF f
  <2>1. ASSUME NEW b \in BOOLEAN
        PROVE  [f EXCEPT !.quiet = Most(@, 0), !.progressed = b] \in ContactType
    BY <1>1, AgesTyped DEF ContactType
  <2>2. [f EXCEPT !.quiet = None, !.progressed = FALSE] \in ContactType
    BY <1>1, AgesTyped DEF ContactType
  <2>3. (f.progressed \/ progress) \in BOOLEAN
    OBVIOUS
  <2> QED BY <2>1, <2>2, <2>3 DEF Quieted
<1>4. ASSUME NEW u \in BOOLEAN PROVE Release(q, in, t, u) \in ContactType
  <2> HIDE DEF q, t
  <2>1. Most(in.desired - t, 0) \in Int /\ q.samples \in 0..Window
    BY <1>2, <1>3 DEF Most, InputTyped, ContactType
  <2>2. NoContact \in ContactType
    BY AgesTyped, ConstantsTyped DEF NoContact, ContactType, Constants
  <2> QED BY <2>1, <2>2, AgesTyped DEF Release, ContactType
<1>5. (~opened) \in BOOLEAN
  <2> HIDE DEF opened
  <2> QED OBVIOUS
<1> HIDE DEF f, t, q, opened
<1> QED BY <1>2, <1>3, <1>4, <1>5 DEF HoldOutcome, f, t, q, opened

LEMMA Resumed ==
  ASSUME NEW c \in ContactType, NEW in, InputTyped(in)
  PROVE  /\ ResumeOutcome(c, in).contact \in ContactType
         /\ ResumeOutcome(c, in).target \in Int
         /\ ResumeOutcome(c, in).limited = TRUE
<1> DEFINE shrinks == ~Opens(c, in.desired) /\ (c.unloaded \/ Closes(c, in.desired))
           offset  == IF shrinks THEN Most(0, c.resume - ResumeStep) ELSE c.resume
           target  == ResumeTarget(in, offset)
<1>1. offset \in Int
  BY ConstantsTyped DEF ContactType, Most, Constants
<1> HIDE DEF offset
<1>2. target \in Int
  BY <1>1, ConstantsTyped DEF ResumeTarget, Least, InputTyped, Constants
<1>3. ASSUME NEW r \in Int PROVE [c EXCEPT !.resume = r] \in ContactType
  BY DEF ContactType
<1> HIDE DEF target
<1> QED BY <1>1, <1>2, <1>3, AgesTyped DEF ResumeOutcome, offset, target

LEMMA ContactAsks ==
  ASSUME NEW c \in ContactType, NEW in, InputTyped(in), NEW o \in ContactOutcomes(c, in)
  PROVE  /\ o.contact \in ContactType /\ o.target \in Int /\ o.limited \in BOOLEAN
         /\ ~o.limited => o.target = in.soft
<1> DEFINE Asks(m) == /\ m.contact \in ContactType /\ m.target \in Int
                      /\ m.limited \in BOOLEAN
                      /\ ~m.limited => m.target = in.soft
                      /\ m = [target |-> m.target, limited |-> m.limited,
                              contact |-> m.contact]
<1>1. ASSUME NEW d \in ContactType, NEW m \in Moved(d, in) PROVE Asks(m)
  <2>1. CASE d.state = "CONTACT_HOLD"
    <3> DEFINE progresses == IF d.samples = Window THEN BOOLEAN ELSE {FALSE}
               held(p, progress) == { HoldOutcome(d, in, mapped, progress) :
                                        mapped \in Mapped(in, p) }
    <3>0. m \in UNION { held(p, progress) : p \in Preloads(in.load),
                                           progress \in progresses }
      <4>1. Moved(d, in) = UNION { held(p, progress) : p \in Preloads(in.load),
                                                       progress \in progresses }
        BY <2>1 DEF Moved
      <4>2. m \in Moved(d, in)
        BY <1>1
      <4> HIDE DEF held, progresses
      <4> QED BY <4>1, <4>2
    <3>1. PICK p \in Preloads(in.load) : \E progress \in progresses :
            m \in held(p, progress)
      <4> HIDE DEF held, progresses
      <4> QED BY <3>0
    <3>2. PICK progress \in BOOLEAN : \E mapped \in Mapped(in, p) :
            m = HoldOutcome(d, in, mapped, progress)
      BY <3>1
    <3>3. PICK mapped \in Mapped(in, p) : m = HoldOutcome(d, in, mapped, progress)
      BY <3>2
    <3>4. mapped \in Int
      BY MappedTyped
    <3> QED BY <3>3, <3>4, Held DEF HoldOutcome
  <2>2. CASE d.state # "CONTACT_HOLD" /\ d.resume # None
    <3>1. m = ResumeOutcome(d, in)
      BY <1>1, <2>2 DEF Moved
    <3> QED BY <3>1, Resumed DEF ResumeOutcome
  <2>3. CASE d.state # "CONTACT_HOLD" /\ d.resume = None
    <3>1. m = [target |-> in.soft, limited |-> FALSE, contact |-> d]
      BY <1>1, <2>3 DEF Moved
    <3> QED BY <3>1 DEF InputTyped
  <2> QED BY <2>1, <2>2, <2>3
<1>2. PICK m : /\ \E opening, e : m \in Moved(Confirm(c, in, opening, e), in)
               /\ o = [m EXCEPT !.contact.last =
                         IF Remembers(m.contact) THEN in.desired ELSE None]
  BY DEF ContactOutcomes
<1>3. Asks(m)
  BY <1>1, <1>2, Confirmed
<1>4. ASSUME NEW l \in Int PROVE [m.contact EXCEPT !.last = l] \in ContactType
  BY <1>3 DEF ContactType
<1>5. (IF Remembers(m.contact) THEN in.desired ELSE None) \in Int
  BY AgesTyped DEF InputTyped
<1>6. /\ o.target = m.target /\ o.limited = m.limited
      /\ o.contact = [m.contact EXCEPT !.last =
                        IF Remembers(m.contact) THEN in.desired ELSE None]
  BY <1>2, <1>3
<1> QED BY <1>3, <1>4, <1>5, <1>6

-----------------------------------------------------------------------------
(* What the contact machine asks of a finger that is held or was released. *)

Settled(c) == c.state = "CONTACT_HOLD" => c.resume = None

LEMMA EnterKeeps ==
  ASSUME NEW c \in ContactType, NEW s \in States
  PROVE  /\ Enter(c, s) \in ContactType /\ Enter(c, s).state = s
         /\ Enter(c, s).resume = c.resume /\ Enter(c, s).peak = c.peak
         /\ Enter(c, s).openDesired = c.openDesired
BY DEF Enter, ContactType, States

LEMMA ConfirmedState ==
  ASSUME NEW c \in ContactType, NEW in, InputTyped(in), NEW opening, NEW e, Settled(c),
         NEW d, d = Confirm(c, in, opening, e)
  PROVE  /\ Settled(d)
         /\ c.state # "CONTACT_HOLD" /\ d.state # "CONTACT_HOLD" => d.resume = c.resume
         /\ c.state # "CONTACT_HOLD" /\ d.state = "CONTACT_HOLD"
              => e # "none" /\ d.peak = in.desired /\ d.openDesired = None
<1> DEFINE k == Cleared(c, opening)
           p == Pending(k)
           l == Latched(p, in)
<1>1. CASE c.state = "CONTACT_HOLD"
  BY <1>1 DEF Confirm
<1>2. CASE c.state # "CONTACT_HOLD"
  <2>1. k \in ContactType /\ k.state # "CONTACT_HOLD" /\ k.resume = c.resume
    <3> DEFINE q == [c EXCEPT !.pending = None, !.evidence = None]
    <3>1. q \in ContactType /\ q.resume = c.resume
      BY AgesTyped DEF ContactType
    <3>2. k = Enter(q, "FREE") \/ k = c
      BY DEF Cleared
    <3> HIDE DEF q, k
    <3>3. "FREE" \in States
      BY DEF States
    <3> QED BY <1>2, <3>1, <3>2, <3>3, EnterKeeps
  <2> HIDE DEF k
  <2>2. p \in ContactType /\ p.state = "CONTACT_PENDING" /\ p.resume = k.resume
    <3> DEFINE q == [k EXCEPT !.evidence = 0, !.pending = Most(@, 0)]
    <3>1. q \in ContactType /\ q.resume = k.resume
      BY <2>1, AgesTyped DEF ContactType
    <3>2. p = Enter(q, "CONTACT_PENDING")
      BY DEF Pending
    <3> HIDE DEF q, p
    <3>3. "CONTACT_PENDING" \in States
      BY DEF States
    <3> QED BY <3>1, <3>2, <3>3, EnterKeeps
  <2> HIDE DEF p
  <2>3. l.state = "CONTACT_HOLD" /\ l.resume = None /\ l.peak = in.desired
        /\ l.openDesired = None
    <3> DEFINE q == [p EXCEPT !.peak = in.desired, !.openDesired = None,
                              !.openEffective = None, !.resume = None]
    <3>1. /\ q \in ContactType /\ q.resume = None /\ q.peak = in.desired
          /\ q.openDesired = None
      BY <2>2, AgesTyped DEF ContactType, InputTyped
    <3>2. l = Enter(q, "CONTACT_HOLD")
      BY DEF Latched
    <3> HIDE DEF q, l
    <3>3. "CONTACT_HOLD" \in States
      BY DEF States
    <3> QED BY <3>1, <3>2, <3>3, EnterKeeps
  <2> HIDE DEF l
  <2>4. d = IF e = "none" THEN k ELSE IF p.pending >= HoldTime(e) THEN l ELSE p
    BY <1>2 DEF Confirm, k, p, l
  <2> QED BY <1>2, <2>1, <2>2, <2>3, <2>4 DEF Settled
<1> QED BY <1>1, <1>2

LEMMA FollowKeeps ==
  ASSUME NEW d \in ContactType, NEW in, InputTyped(in), NEW f, f = FollowOperator(d, in)
  PROVE  /\ f.state = d.state /\ f.resume = d.resume
         /\ d.peak = in.desired /\ d.openDesired = None => f.openDesired = None
<1> DEFINE r == IF d.openDesired # None /\ Closes(d, in.desired)
                THEN [d EXCEPT !.openDesired = None, !.openEffective = None, !.peak = d.last]
                ELSE d
<1>1. /\ r \in ContactType /\ r.state = d.state /\ r.resume = d.resume
      /\ d.openDesired = None => r = d
  BY AgesTyped DEF ContactType
<1> HIDE DEF r
<1>2. f = IF r.openDesired # None THEN r
          ELSE IF Most(r.peak, in.desired) > in.desired
          THEN [r EXCEPT !.peak = None, !.openDesired = Most(r.peak, in.desired),
                         !.openEffective = in.out]
          ELSE [r EXCEPT !.peak = Most(r.peak, in.desired)]
  BY DEF FollowOperator, r
<1>3. f.state = r.state /\ f.resume = r.resume
  BY <1>1, <1>2 DEF ContactType
<1>4. ASSUME d.peak = in.desired, d.openDesired = None PROVE f.openDesired = None
  <2>1. Most(r.peak, in.desired) = in.desired
    BY <1>1, <1>4 DEF Most
  <2>2. ~(in.desired > in.desired)
    BY DEF InputTyped
  <2> QED BY <1>1, <1>2, <1>4, <2>1, <2>2 DEF ContactType
<1> QED BY <1>1, <1>3, <1>4

LEMMA HeldGently ==
  ASSUME NEW d \in ContactType, NEW in, InputTyped(in), NEW p \in Preloads(in.load),
         NEW mapped \in Mapped(in, p), NEW progress \in BOOLEAN, Settled(d),
         d.state = "CONTACT_HOLD", NEW m, m = HoldOutcome(d, in, mapped, progress)
  PROVE  /\ Settled(m.contact) /\ m.limited = TRUE
         /\ m.target <= Most(in.out, in.measured + Preload)
         /\ m.contact.state = "CONTACT_HOLD" /\ m.contact.openDesired = None /\ in.soft >= in.out
              => m.target >= Least(in.out, in.measured)
         /\ d.peak = in.desired /\ d.openDesired = None /\ in.load # Quiet
              => m.contact.state = "CONTACT_HOLD"
<1> DEFINE f == FollowOperator(d, in)
           t == HeldTarget(f, in, mapped)
           q == Quieted(f, in, progress)
           opened == Opened(q, in) /\ q.openDesired - in.desired >= ReleaseOpen
           unload == q.quiet >= ReleaseHold /\ q.progressed
           r == Release(q, in, t, ~opened)
<1>1. f \in ContactType /\ f.state = "CONTACT_HOLD" /\ f.resume = None
  BY Followed, FollowKeeps DEF Settled
<1>2. d.peak = in.desired /\ d.openDesired = None => f.openDesired = None
  BY FollowKeeps
<1>3. /\ m.target = t /\ m.limited = TRUE
      /\ m.contact = IF opened \/ unload THEN r ELSE q
  BY DEF HoldOutcome
<1> HIDE DEF f
<1>4. /\ q.state = "CONTACT_HOLD" /\ q.resume = None /\ q.openDesired = f.openDesired
      /\ in.load # Quiet => q.quiet = None
  BY <1>1 DEF Quieted, ContactType
<1>5. r.state = "FREE"
  BY DEF Release, NoContact
<1>6. p \in Nat /\ p <= Preload /\ mapped \in Int
  BY MappedTyped, ConstantsTyped DEF Preloads, Constants
<1>7. mapped <= in.measured + Preload /\ mapped >= Least(in.out, in.measured)
  BY <1>6, ConstantsTyped DEF Mapped, Least, InputTyped, Constants
<1>8. t <= Most(in.out, in.measured + Preload)
  <2>1. Most(mapped, in.out - YieldStep) <= Most(in.out, in.measured + Preload)
    BY <1>6, <1>7, ConstantsTyped DEF Most, InputTyped, Constants
  <2>2. f.openEffective \in Int /\ f.openDesired \in Int
    BY <1>1 DEF ContactType
  <2>3. Most(mapped, in.out - YieldStep) \in Int /\ Most(in.out, in.measured + Preload) \in Int
    BY <1>6, ConstantsTyped DEF Most, InputTyped, Constants
  <2> QED BY <2>1, <2>2, <2>3 DEF HeldTarget, Least, InputTyped
<1>9. ASSUME f.openDesired = None, in.soft >= in.out PROVE t >= Least(in.out, in.measured)
  <2>1. t = Least(in.soft, Most(mapped, in.out - YieldStep))
    BY <1>9 DEF HeldTarget, Opened
  <2> QED BY <1>6, <1>7, <1>9, <2>1, ConstantsTyped DEF Least, Most, InputTyped, Constants
<1>10. ASSUME d.peak = in.desired, d.openDesired = None, in.load # Quiet
       PROVE  m.contact.state = "CONTACT_HOLD"
  <2>1. ~opened
    BY <1>2, <1>4, <1>10 DEF Opened
  <2>2. ~unload
    BY <1>4, <1>10, ConstantsTyped DEF Constants, None
  <2> QED BY <1>3, <1>4, <2>1, <2>2
<1> HIDE DEF t, q, opened, unload, r
<1>11. m.contact.state = "CONTACT_HOLD" => m.contact = q
  BY <1>3, <1>5
<1>12. Settled(m.contact)
  BY <1>4, <1>11 DEF Settled
<1>13. m.target <= Most(in.out, in.measured + Preload)
  BY <1>3, <1>8
<1>14. ASSUME m.contact.state = "CONTACT_HOLD", m.contact.openDesired = None,
              in.soft >= in.out
       PROVE  m.target >= Least(in.out, in.measured)
  BY <1>3, <1>4, <1>9, <1>11, <1>14
<1> QED BY <1>3, <1>10, <1>12, <1>13, <1>14

LEMMA ResumedGently ==
  ASSUME NEW d \in ContactType, NEW in, InputTyped(in), d.state # "CONTACT_HOLD",
         NEW m, m = ResumeOutcome(d, in)
  PROVE  /\ m.contact.state = d.state /\ m.limited = TRUE
         /\ m.target <= in.out + ResumeStep
<1>1. PICK offset : /\ m.target = ResumeTarget(in, offset) /\ m.limited = TRUE
                    /\ offset \in Int
                    /\ \E x : m.contact = [d EXCEPT !.resume = x]
  <2> DEFINE shrinks == ~Opens(d, in.desired) /\ (d.unloaded \/ Closes(d, in.desired))
             offset  == IF shrinks THEN Most(0, d.resume - ResumeStep) ELSE d.resume
  <2>1. offset \in Int
    BY ConstantsTyped DEF ContactType, Most, Constants
  <2> QED BY <2>1 DEF ResumeOutcome
<1>2. m.contact.state = d.state
  BY <1>1 DEF ContactType
<1>3. m.target <= in.out + ResumeStep
  BY <1>1, ConstantsTyped DEF ResumeTarget, Least, InputTyped, Constants
<1> QED BY <1>1, <1>2, <1>3

(* What holds of the contact and the target of any update.                 *)
Gentle(c, in, o) ==
  /\ Settled(o.contact)
  /\ c.resume # None /\ o.contact.state # "CONTACT_HOLD"
       => o.limited /\ o.target <= in.out + ResumeStep
  /\ o.contact.state = "CONTACT_HOLD"
       => /\ o.limited /\ o.target <= Most(in.out, in.measured + Preload)
          /\ o.contact.openDesired = None /\ in.soft >= in.out
               => o.target >= Least(in.out, in.measured)

LEMMA ContactIsGentle ==
  ASSUME NEW c \in ContactType, NEW in, InputTyped(in), Settled(c),
         NEW o \in ContactOutcomes(c, in)
  PROVE  Gentle(c, in, o)
<1>1. PICK opening, e, m :
        /\ e \in Evidence(c, in, opening)
        /\ m \in Moved(Confirm(c, in, opening, e), in)
        /\ o = [m EXCEPT !.contact.last =
                  IF Remembers(m.contact) THEN in.desired ELSE None]
  BY DEF ContactOutcomes
<1> DEFINE d == Confirm(c, in, opening, e)
<1>2. /\ d \in ContactType /\ Settled(d)
      /\ c.state # "CONTACT_HOLD" /\ d.state # "CONTACT_HOLD" => d.resume = c.resume
      /\ c.state # "CONTACT_HOLD" /\ d.state = "CONTACT_HOLD"
           => e # "none" /\ d.peak = in.desired /\ d.openDesired = None
  BY Confirmed, ConfirmedState
<1>3. e # "none" => in.load # Quiet
  BY <1>1 DEF Evidence
<1>4. m \in Moved(d, in)
  BY <1>1
<1> HIDE DEF d
<1>5. /\ Gentle(c, in, m) /\ m.contact \in ContactType
      /\ m = [target |-> m.target, limited |-> m.limited, contact |-> m.contact]
  <2>1. CASE d.state = "CONTACT_HOLD"
    <3>1. PICK p \in Preloads(in.load), progress \in BOOLEAN :
            \E mapped \in Mapped(in, p) : m = HoldOutcome(d, in, mapped, progress)
      <4> DEFINE progresses == IF d.samples = Window THEN BOOLEAN ELSE {FALSE}
                 held(p, progress) == { HoldOutcome(d, in, mapped, progress) :
                                          mapped \in Mapped(in, p) }
      <4>1. Moved(d, in) = UNION { held(p, progress) : p \in Preloads(in.load),
                                                       progress \in progresses }
        BY <2>1 DEF Moved
      <4>2. \A p, progress : m \in held(p, progress)
              => \E mapped \in Mapped(in, p) : m = HoldOutcome(d, in, mapped, progress)
        OBVIOUS
      <4>3. \A progress \in progresses : progress \in BOOLEAN
        OBVIOUS
      <4> HIDE DEF held, progresses
      <4> QED BY <1>4, <4>1, <4>2, <4>3
    <3>2. PICK mapped \in Mapped(in, p) : m = HoldOutcome(d, in, mapped, progress)
      BY <3>1
    <3>3. /\ Settled(m.contact) /\ m.limited = TRUE
          /\ m.target <= Most(in.out, in.measured + Preload)
          /\ m.contact.state = "CONTACT_HOLD" /\ m.contact.openDesired = None /\ in.soft >= in.out
               => m.target >= Least(in.out, in.measured)
          /\ d.peak = in.desired /\ d.openDesired = None /\ in.load # Quiet
               => m.contact.state = "CONTACT_HOLD"
      BY <1>2, <2>1, <3>2, HeldGently
    <3>4. /\ m.contact \in ContactType
          /\ m = [target |-> m.target, limited |-> m.limited, contact |-> m.contact]
      <4>1. m.contact \in ContactType
        BY <1>2, <3>2, MappedTyped, Held
      <4> QED BY <3>2, <4>1 DEF HoldOutcome
    <3>5. c.resume # None => m.contact.state = "CONTACT_HOLD"
      BY <1>2, <1>3, <2>1, <3>3 DEF Settled
    <3> QED BY <3>3, <3>4, <3>5 DEF Gentle
  <2>2. CASE d.state # "CONTACT_HOLD" /\ d.resume # None
    <3>1. m = ResumeOutcome(d, in)
      BY <1>4, <2>2 DEF Moved
    <3>2. m = [target |-> m.target, limited |-> m.limited, contact |-> m.contact]
      BY <3>1 DEF ResumeOutcome
    <3> QED BY <1>2, <2>2, <3>1, <3>2, Resumed, ResumedGently DEF Gentle, Settled
  <2>3. CASE d.state # "CONTACT_HOLD" /\ d.resume = None
    <3>1. m = [target |-> in.soft, limited |-> FALSE, contact |-> d]
      BY <1>4, <2>3 DEF Moved
    <3>2. c.resume = None
      BY <1>2, <2>3, <1>2 DEF Settled
    <3> QED BY <1>2, <2>3, <3>1, <3>2 DEF Gentle, Settled
  <2> QED BY <2>1, <2>2, <2>3
<1>6. /\ o.target = m.target /\ o.limited = m.limited
      /\ o.contact = [m.contact EXCEPT !.last =
                        IF Remembers(m.contact) THEN in.desired ELSE None]
  BY <1>1, <1>5
<1>7. /\ o.contact.state = m.contact.state /\ o.contact.resume = m.contact.resume
      /\ o.contact.openDesired = m.contact.openDesired
  BY <1>5, <1>6 DEF ContactType
<1> QED BY <1>5, <1>6, <1>7 DEF Gentle, Settled

-----------------------------------------------------------------------------
(* The current guard. *)

LEMMA GuardAsks ==
  ASSUME NEW c \in ContactType, NEW in, InputTyped(in), in.load \in Loads,
         in = [desired |-> in.desired, measured |-> in.measured, load |-> in.load,
               out |-> in.out, soft |-> in.soft, signal |-> in.signal],
         in.desired \in Poses, NEW g \in GuardOutcomes(c, in)
  PROVE  /\ g.contact \in ContactType /\ g.target \in Int /\ g.limited \in BOOLEAN
         /\ in.load >= Hard /\ in.signal # "apart" /\ in.out # in.measured =>
              \/ g.limited /\ g.target = in.out
              \/ g.limited /\ (g.target - in.out) * (in.out - in.measured) < 0
              \/ /\ ~g.limited /\ g.target = in.desired
                 /\ (in.desired - in.out) * (in.out - in.measured) < 0
<1>1. PICK s \in Softened(in) :
        \E o \in ContactOutcomes(c, [in EXCEPT !.soft = s.target]) :
          \E freeze \in Freezes(in, o) : g = Guarded(in, s, o, freeze)
  BY DEF GuardOutcomes
<1>2. PICK o \in ContactOutcomes(c, [in EXCEPT !.soft = s.target]) :
        \E freeze \in Freezes(in, o) : g = Guarded(in, s, o, freeze)
  BY <1>1
<1>3. PICK freeze \in Freezes(in, o) : g = Guarded(in, s, o, freeze)
  BY <1>2
<1>4. /\ s.target \in Int /\ s.limited \in BOOLEAN
      /\ Excused(in) => s.target = in.desired /\ s.limited = FALSE
  <2>1. CASE Excused(in)
    <3>1. s = [target |-> in.desired, limited |-> FALSE]
      BY <2>1 DEF Softened
    <3> QED BY <2>1, <3>1 DEF InputTyped
  <2>2. CASE ~Excused(in)
    <3>1. \/ s = [target |-> in.desired, limited |-> FALSE]
          \/ \E x \in Poses : s = [target |-> x, limited |-> TRUE]
      BY <2>2 DEF Softened, Slowed
    <3>2. CASE s = [target |-> in.desired, limited |-> FALSE]
      BY <2>2, <3>2 DEF InputTyped
    <3>3. ASSUME NEW x \in Poses, s = [target |-> x, limited |-> TRUE]
          PROVE  s.target \in Int /\ s.limited \in BOOLEAN
      BY <3>3 DEF Poses
    <3> QED BY <2>2, <3>1, <3>2, <3>3
  <2> QED BY <2>1, <2>2
<1>5. InputTyped([in EXCEPT !.soft = s.target]) /\ [in EXCEPT !.soft = s.target].soft = s.target
  BY <1>4 DEF InputTyped
<1>6. /\ o.contact \in ContactType /\ o.target \in Int /\ o.limited \in BOOLEAN
      /\ ~o.limited => o.target = s.target
  BY <1>5, ContactAsks
<1>7. freeze \in BOOLEAN
  BY DEF Freezes
<1>8. /\ g.target = IF freeze THEN in.out ELSE o.target
      /\ g.limited = (s.limited \/ o.limited \/ freeze) /\ g.contact = o.contact
  BY <1>3 DEF Guarded
<1>9. g.contact \in ContactType /\ g.target \in Int /\ g.limited \in BOOLEAN
  BY <1>6, <1>8 DEF InputTyped
<1>10. ASSUME in.load >= Hard, in.signal # "apart", in.out # in.measured
       PROVE  \/ g.limited /\ g.target = in.out
              \/ g.limited /\ (g.target - in.out) * (in.out - in.measured) < 0
              \/ /\ ~g.limited /\ g.target = in.desired
                 /\ (in.desired - in.out) * (in.out - in.measured) < 0
  <2>1. CASE freeze
    BY <1>8, <2>1
  <2>2. CASE ~freeze
    <3>1. Eases(in, o)
      <4>1. ~(in.load < Hard)
        BY <1>10 DEF Loads, Hard, Quiet, Trip
      <4>2. SUFFICES ASSUME ~Eases(in, o) PROVE FALSE
        OBVIOUS
      <4>3. Freezes(in, o) = {TRUE}
        BY <1>10, <4>1, <4>2 DEF Freezes
      <4> QED BY <2>2, <4>3
    <3>2. CASE o.limited
      BY <1>8, <2>2, <3>1, <3>2 DEF Eases
    <3>3. CASE ~o.limited
      <4>1. Excused(in) /\ Relieves(in)
        BY <1>10, <3>1, <3>3 DEF Eases, Excused
      <4> QED BY <1>4, <1>6, <1>8, <2>2, <3>3, <4>1 DEF Relieves
    <3> QED BY <3>2, <3>3
  <2> QED BY <2>1, <2>2
<1> QED BY <1>9, <1>10

(* A motion that adds load is slowed down, not turned around. *)
LEMMA SoftenedTyped ==
  ASSUME NEW in, InputTyped(in), in.desired \in Poses, NEW s \in Softened(in)
  PROVE  /\ s.target \in Int /\ s.limited \in BOOLEAN
         /\ in.desired >= in.out => s.target >= in.out
<1>1. CASE s = [target |-> in.desired, limited |-> FALSE]
  BY <1>1 DEF InputTyped
<1>2. CASE s # [target |-> in.desired, limited |-> FALSE]
  <2>0. PICK gain : \E x \in Slowed(in, gain) : s = [target |-> x, limited |-> TRUE]
    BY <1>2 DEF Softened
  <2>1. PICK x \in Slowed(in, gain) : s = [target |-> x, limited |-> TRUE]
    BY <2>0
  <2>2. x \in Int /\ (x - in.out) * (in.desired - in.out) >= 0
        /\ Dist(x, in.out) <= Dist(in.desired, in.out)
    <3>1. x \in Int
      BY DEF Slowed, Poses
    <3>2. \/ Dist(x, in.out) <= 0
          \/ Dist(x, in.out) <= Least(MaxStep, Dist(in.desired, in.out))
      BY DEF Slowed
    <3>3. Dist(x, in.out) <= Dist(in.desired, in.out)
      BY <3>1, <3>2, ConstantsTyped DEF Dist, Most, Least, InputTyped, Constants
    <3> QED BY <3>1, <3>3 DEF Slowed
  <2>3. ASSUME in.desired >= in.out PROVE x >= in.out
    <3>1. CASE in.desired = in.out
      BY <2>2, <3>1 DEF Dist, Most, InputTyped
    <3>2. CASE in.desired > in.out
      <4>1. \A u, v \in Int : u < 0 /\ v > 0 => ~(u * v >= 0)
        OBVIOUS
      <4>2. x - in.out \in Int /\ in.desired - in.out \in Int /\ in.desired - in.out > 0
        BY <2>2, <3>2 DEF InputTyped
      <4>3. ~(x - in.out < 0)
        BY <2>2, <4>1, <4>2
      <4> QED BY <2>2, <4>3 DEF InputTyped
    <3> QED BY <2>3, <3>1, <3>2 DEF InputTyped
  <2> QED BY <2>1, <2>2, <2>3
<1> QED BY <1>1, <1>2

(* Neither the gains nor the freeze make the guard less gentle. *)
LEMMA GuardIsGentle ==
  ASSUME NEW c \in ContactType, NEW in, InputTyped(in), in.desired \in Poses, Settled(c),
         in = [desired |-> in.desired, measured |-> in.measured, load |-> in.load,
               out |-> in.out, soft |-> in.desired, signal |-> in.signal],
         NEW g \in GuardOutcomes(c, in)
  PROVE  Gentle(c, in, g)
<1>1. PICK s \in Softened(in) :
        \E o \in ContactOutcomes(c, [in EXCEPT !.soft = s.target]) :
          \E freeze \in Freezes(in, o) : g = Guarded(in, s, o, freeze)
  BY DEF GuardOutcomes
<1> DEFINE at == [in EXCEPT !.soft = s.target]
<1>2. PICK o \in ContactOutcomes(c, at) :
        \E freeze \in Freezes(in, o) : g = Guarded(in, s, o, freeze)
  BY <1>1
<1>3. PICK freeze \in Freezes(in, o) : g = Guarded(in, s, o, freeze)
  BY <1>2
<1>4. /\ s.target \in Int /\ s.limited \in BOOLEAN
      /\ in.desired >= in.out => s.target >= in.out
  BY SoftenedTyped
<1>5. /\ at.desired = in.desired /\ at.measured = in.measured /\ at.out = in.out
      /\ at.soft = s.target /\ in.soft = in.desired /\ at.load = in.load
  OBVIOUS
<1>6. InputTyped(at)
  BY <1>4, <1>5 DEF InputTyped
<1> HIDE DEF at
<1>7. Gentle(c, at, o) /\ o.limited \in BOOLEAN
  BY <1>6, ContactIsGentle, ContactAsks
<1>8. freeze \in BOOLEAN
  BY DEF Freezes
<1>9. /\ g.target = IF freeze THEN in.out ELSE o.target
      /\ g.limited = (s.limited \/ o.limited \/ freeze) /\ g.contact = o.contact
  BY <1>3 DEF Guarded
<1>10. /\ in.out <= in.out + ResumeStep
       /\ in.out <= Most(in.out, in.measured + Preload)
       /\ in.out >= Least(in.out, in.measured)
  BY ConstantsTyped DEF InputTyped, Most, Least, Constants
<1>11. CASE freeze
  BY <1>7, <1>9, <1>10, <1>11 DEF Gentle
<1>12. CASE ~freeze
  BY <1>4, <1>5, <1>7, <1>9, <1>12 DEF Gentle
<1> QED BY <1>8, <1>11, <1>12

-----------------------------------------------------------------------------
(* The command shaper. *)

(* A step towards b, within the range, and what the bounds between the     *)
(* setpoint o and a target t leave of it.                                  *)
Stepped(c, b) == Clip(c + Clip(b - c, -MaxStep, MaxStep), 0, Top)
Bounded(x, o, t) == Clip(x, Most(0, Least(o, t)), Least(Top, Most(o, t)))

LEMMA ClippedStep ==
  ASSUME NEW c \in Poses, NEW o \in Poses, NEW b \in Int, NEW t \in Int, NEW x, NEW y,
         x = Stepped(c, b), y = Bounded(x, o, t)
  PROVE  /\ x \in Poses /\ Dist(x, c) <= MaxStep
         /\ y \in Poses /\ Dist(y, o) <= Dist(x, o)
         /\ t <= o => y <= o
         /\ t >= o => y >= o
         /\ b <= o => x <= o \/ x <= c
         /\ b >= o => x >= o \/ x >= c
         /\ Least(o, t) <= y /\ y <= Most(o, t)
<1> USE ConstantsTyped DEF Constants, Poses, Clip, Most, Least, Dist, Stepped, Bounded
<1>1. PICK d \in Int : /\ d = Clip(b - c, -MaxStep, MaxStep)
                       /\ -MaxStep <= d /\ d <= MaxStep
                       /\ (b <= c => b - c <= d /\ d <= 0) /\ (b >= c => 0 <= d /\ d <= b - c)
  OBVIOUS
<1>2. /\ x \in 0..Top /\ x = Clip(c + d, 0, Top)
      /\ (d <= 0 => c + d <= x /\ x <= c) /\ (d >= 0 => c <= x /\ x <= c + d)
  BY <1>1
<1>3. PICK low \in 0..o, high \in o..Top :
        /\ low = Most(0, Least(o, t)) /\ high = Least(Top, Most(o, t))
        /\ (t <= o => high = o) /\ (t >= o => low = o)
        /\ Least(o, t) <= low /\ high <= Most(o, t)
  OBVIOUS
<1>4. /\ y = Clip(x, low, high) /\ low <= y /\ y <= high
      /\ (x <= o => x <= y /\ y <= o) /\ (x >= o => o <= y /\ y <= x)
  BY <1>2, <1>3
<1>5. x \in Poses /\ Dist(x, c) <= MaxStep
  BY <1>1, <1>2
<1>6. y \in Poses /\ Dist(y, o) <= Dist(x, o)
  BY <1>2, <1>3, <1>4
<1>7. (t <= o => y <= o) /\ (t >= o => y >= o)
  BY <1>3, <1>4
<1>8. (b <= o => x <= o \/ x <= c) /\ (b >= o => x >= o \/ x >= c)
  BY <1>1, <1>2
<1>9. Least(o, t) <= y /\ y <= Most(o, t)
  BY <1>3, <1>4
<1> QED BY <1>5, <1>6, <1>7, <1>8, <1>9

(* What the shaper remembers: it never runs further ahead of the hand than *)
(* the smallest step that is sent.                                         *)
Unsent == Most(MinSend - 1, 0)

ShaperInv ==
  /\ command \in Poses /\ out \in Poses
  /\ blend \in [origin : Poses \cup {None}, age : Nat]
  /\ blend # NoBlend => BlendTicks > 0
  /\ contact \in ContactType
  /\ mode = "armed" => Dist(command, out) <= Unsent

LEMMA BlendedTyped ==
  ASSUME ShaperInv, NEW t \in Int
  PROVE  Blended(t) \in Int
<1>1. ASSUME NEW n \in Int, blend # NoBlend PROVE n \div BlendTicks \in Int
  BY <1>1, ConstantsTyped DEF Constants, ShaperInv
<1>2. blend.origin \in Int /\ blend.age + 1 \in Int
  BY AgesTyped, ConstantsTyped DEF ShaperInv, Poses, Constants
<1>3. t - blend.origin \in Int
  BY <1>2
<1>4. (t - blend.origin) * (blend.age + 1) \in Int
  BY <1>2, <1>3
<1>5. blend # NoBlend => ((t - blend.origin) * (blend.age + 1)) \div BlendTicks \in Int
  BY <1>1, <1>4
<1> QED BY <1>2, <1>5 DEF Blended

(* The contact as a tick of the output timer finds it. *)
Found == IF blind > Gap + 1 THEN AfterGap(contact) ELSE Sampled(contact)

(* A tick of the output timer that leaves the output armed. *)
LEMMA SentSetpoint ==
  ASSUME ShaperInv, SendLatest, mode' = "armed"
  PROVE  \E desired, measured \in Poses, load \in Loads, signal \in ContactSignals,
            cc \in ContactType \cap {Found} :
           LET in == [desired |-> desired, measured |-> measured, load |-> load,
                      out |-> out, soft |-> desired, signal |-> signal]
           IN \E g \in GuardOutcomes(cc, in) :
                /\ seen' = [desired |-> desired, measured |-> measured,
                            hard |-> load >= Hard /\ signal # "apart"]
                /\ contact' = g.contact
                /\ Accepted(g, load)
<1>1. contact \in ContactType
  BY DEF ShaperInv
<1>2. Found \in ContactType
  BY <1>1, Aged DEF Found
<1>3. ~Disarm
  BY DEF Disarm
<1> QED BY <1>2, <1>3 DEF SendLatest, Rejected, Found

(* A command that was not sent does not hide a motion past the setpoint.   *)
LEMMA NotFurther ==
  ASSUME NEW c \in Poses, NEW o \in Poses, NEW d \in Poses,
         Dist(c, o) <= Unsent, Dist(d, o) >= MinSend, d # o
  PROVE  (d > o => ~(d <= c)) /\ (d < o => ~(d >= c))
<1> USE ConstantsTyped DEF Constants
<1>1. c \in Int /\ o \in Int /\ d \in Int
  BY DEF Poses
<1>2. CASE MinSend = 0
  BY <1>1, <1>2 DEF Unsent, Dist, Most
<1>3. CASE MinSend # 0
  BY <1>1, <1>3 DEF Unsent, Dist, Most
<1> QED BY <1>2, <1>3

LEMMA Signs ==
  ASSUME NEW u \in Int, NEW v \in Int
  PROVE  /\ u * v < 0 => (u < 0 /\ v > 0) \/ (u > 0 /\ v < 0)
         /\ (u <= 0 /\ v > 0) \/ (u >= 0 /\ v < 0) \/ v = 0 \/ u = 0 => ~(u * v > 0)
OBVIOUS

(* A joint at m, pushed towards the setpoint o, and a setpoint d not past it. *)
LEMMA NoPush ==
  ASSUME NEW o \in Int, NEW m \in Int, NEW d \in Int,
         (o > m /\ d <= o) \/ (o < m /\ d >= o) \/ o = m \/ d = o
  PROVE  ~((d - o) * (o - m) > 0)
<1>1. \A u, v \in Int : (u <= 0 /\ v > 0) \/ (u >= 0 /\ v < 0) \/ v = 0 \/ u = 0
                          => ~(u * v > 0)
  BY Signs
<1>2. d - o \in Int /\ o - m \in Int
  OBVIOUS
<1>3. \/ d - o <= 0 /\ o - m > 0
      \/ d - o >= 0 /\ o - m < 0
      \/ o - m = 0 \/ d - o = 0
  OBVIOUS
<1> QED BY <1>1, <1>2, <1>3

(* What a tick sends to a finger that is held, or was released. *)
SentGently ==
  /\ contact.resume # None /\ contact'.state # "CONTACT_HOLD" => out' <= out + ResumeStep
  /\ contact'.state = "CONTACT_HOLD" =>
       /\ out' <= Most(out, seen'.measured + Preload)
       /\ contact'.openDesired = None /\ seen'.desired >= out
            => out' >= Least(out, seen'.measured)

(* Time and gaps neither hold a finger nor end its offset. *)
LEMMA AgedKeeps ==
  ASSUME NEW c \in ContactType
  PROVE  /\ Settled(c) => Settled(AgedContact(c))
         /\ Settled(c) => Settled(Sampled(c)) /\ Sampled(c).resume = c.resume
         /\ Settled(c) => Settled(AfterGap(c)) /\ AfterGap(c).resume = c.resume
<1>1. AgedContact(c).state = c.state /\ AgedContact(c).resume = c.resume
  BY DEF AgedContact, ContactType
<1>2. Sampled(c).state = c.state /\ Sampled(c).resume = c.resume
  BY <1>1, Aged DEF Sampled, ContactType
<1>3. /\ AfterGap(c).state = "CONTACT_HOLD" => c.state = "CONTACT_HOLD"
      /\ AfterGap(c).resume = c.resume
  <2> DEFINE d == IF c.state = "CONTACT_PENDING" THEN Enter(c, "FREE") ELSE c
  <2>1. "FREE" \in States
    BY DEF States
  <2>2. /\ d \in ContactType /\ d.resume = c.resume
        /\ d.state = "CONTACT_HOLD" => c.state = "CONTACT_HOLD"
    BY <2>1, EnterKeeps
  <2> HIDE DEF d
  <2>3. /\ AfterGap(c).state = d.state /\ AfterGap(c).resume = d.resume
    BY <2>2 DEF AfterGap, ContactType, d
  <2> QED BY <2>2, <2>3
<1> QED BY <1>1, <1>2, <1>3 DEF Settled

LEMMA SentStep ==
  ASSUME ShaperInv, SendLatest, mode' = "armed"
  PROVE  /\ command' \in Poses /\ out' \in Poses /\ contact' \in ContactType
         /\ blend' \in [origin : Poses \cup {None}, age : Nat]
         /\ blend' # NoBlend => BlendTicks > 0
         /\ Dist(command', out') <= Unsent /\ Dist(out', out) <= MaxStep + Unsent
         /\ blend = NoBlend /\ seen'.hard => ~PushesOn
         /\ Settled(contact) => (Settled(contact') /\ SentGently)
<1>1. PICK desired \in Poses, measured \in Poses, load \in Loads,
           signal \in ContactSignals, cc \in ContactType \cap {Found} :
        LET in == [desired |-> desired, measured |-> measured, load |-> load,
                   out |-> out, soft |-> desired, signal |-> signal]
        IN \E g \in GuardOutcomes(cc, in) :
             /\ seen' = [desired |-> desired, measured |-> measured,
                         hard |-> load >= Hard /\ signal # "apart"]
             /\ contact' = g.contact
             /\ Accepted(g, load)
  BY SentSetpoint
<1> DEFINE in == [desired |-> desired, measured |-> measured, load |-> load,
                  out |-> out, soft |-> desired, signal |-> signal]
<1>2. PICK g \in GuardOutcomes(cc, in) :
        /\ seen' = [desired |-> desired, measured |-> measured,
                    hard |-> load >= Hard /\ signal # "apart"]
        /\ contact' = g.contact
        /\ Accepted(g, load)
  BY <1>1
<1>3. /\ desired \in Int /\ measured \in Int /\ out \in Int /\ command \in Int
      /\ out \in Poses /\ command \in Poses
  BY ConstantsTyped DEF ShaperInv, Poses, Constants
<1>4. InputTyped(in)
  BY <1>3 DEF InputTyped
<1>5. /\ g.contact \in ContactType /\ g.target \in Int /\ g.limited \in BOOLEAN
      /\ load >= Hard /\ signal # "apart" /\ out # measured =>
           \/ g.limited /\ g.target = out
           \/ g.limited /\ (g.target - out) * (out - measured) < 0
           \/ /\ ~g.limited /\ g.target = desired
              /\ (desired - out) * (out - measured) < 0
  <2>1. /\ in.desired = desired /\ in.measured = measured /\ in.load = load
        /\ in.out = out /\ in.soft = desired /\ in.signal = signal
    OBVIOUS
  <2> HIDE DEF in
  <2>2. in = [desired |-> in.desired, measured |-> in.measured, load |-> in.load,
              out |-> in.out, soft |-> in.soft, signal |-> in.signal]
    BY <2>1 DEF in
  <2> QED BY <1>4, <2>1, <2>2, GuardAsks
<1> DEFINE b == Blended(Clip(g.target, 0, Top))
           x == Stepped(command, b)
           y == Bounded(x, out, g.target)
<1>6. Clip(g.target, 0, Top) \in Int
  BY <1>5, ConstantsTyped DEF Clip, Most, Least, Constants
<1>7. b \in Int
  BY <1>6, BlendedTyped
<1>8. Shaped(g) = IF g.limited THEN y ELSE x
  BY DEF Shaped, Stepped, Bounded
<1> HIDE DEF b
<1>9. /\ x \in Poses /\ Dist(x, command) <= MaxStep
      /\ y \in Poses /\ Dist(y, out) <= Dist(x, out)
      /\ g.target <= out => y <= out
      /\ g.target >= out => y >= out
      /\ b <= out => x <= out \/ x <= command
      /\ b >= out => x >= out \/ x >= command
      /\ Least(out, g.target) <= y /\ y <= Most(out, g.target)
  <2>1. x = Stepped(command, b) /\ y = Bounded(x, out, g.target)
    OBVIOUS
  <2> DEFINE t == g.target
  <2> HIDE DEF x, y, t
  <2> SUFFICES /\ x \in Poses /\ Dist(x, command) <= MaxStep
               /\ y \in Poses /\ Dist(y, out) <= Dist(x, out)
               /\ t <= out => y <= out
               /\ t >= out => y >= out
               /\ b <= out => x <= out \/ x <= command
               /\ b >= out => x >= out \/ x >= command
               /\ Least(out, t) <= y /\ y <= Most(out, t)
    BY DEF t
  <2>2. t \in Int /\ y = Bounded(x, out, t)
    BY <1>5, <2>1 DEF t
  <2> QED BY <1>3, <1>7, <2>1, <2>2, ClippedStep
<1>10. Dist(command, out) <= Unsent
  <2>1. mode = "armed"
    BY DEF SendLatest
  <2> QED BY <2>1 DEF ShaperInv
<1>11. /\ command' = Shaped(g)
       /\ out' = IF Dist(command', out) >= MinSend THEN command' ELSE out
       /\ blend' = BlendLater
  BY <1>2 DEF Accepted
<1> HIDE DEF x, y
<1>12. command' \in Poses /\ out' \in Poses
  BY <1>3, <1>8, <1>9, <1>11
<1>13. /\ blend' \in [origin : Poses \cup {None}, age : Nat]
       /\ blend' # NoBlend => BlendTicks > 0
  BY <1>11 DEF BlendLater, NoBlend, ShaperInv
<1>14. Dist(command', out') <= Unsent
  BY <1>3, <1>11, <1>12, ConstantsTyped DEF Unsent, Dist, Most, Poses, Constants
<1>15. Dist(out', out) <= MaxStep + Unsent
  <2>1. Dist(x, out) <= MaxStep + Unsent
    BY <1>3, <1>9, <1>10, ConstantsTyped DEF Unsent, Dist, Most, Poses, Constants
  <2>2. Dist(command', out) <= MaxStep + Unsent
    BY <1>3, <1>8, <1>9, <1>11, <2>1, ConstantsTyped
       DEF Unsent, Dist, Most, Poses, Constants
  <2> QED BY <1>3, <1>11, <2>2, ConstantsTyped DEF Unsent, Dist, Most, Poses, Constants
<1>16. ASSUME blend = NoBlend, seen'.hard PROVE ~PushesOn
  <2>1. load >= Hard /\ signal # "apart" /\ seen'.measured = measured
    BY <1>2, <1>16
  <2>2. b = Clip(g.target, 0, Top)
    BY <1>16 DEF b, Blended
  <2>3. \/ out > measured /\ out' <= out
        \/ out < measured /\ out' >= out
        \/ out = measured \/ out' = out
    <3> SUFFICES ASSUME out' # out, out # measured
                 PROVE  \/ out > measured /\ command' <= out
                        \/ out < measured /\ command' >= out
      BY <1>11
    <3>1. out' = command' /\ Dist(command', out) >= MinSend
      BY <1>11
    <3>2. \/ out > measured /\ g.target <= out
          \/ out < measured /\ g.target >= out
      <4>1. g.target - out \in Int /\ out - measured \in Int
        BY <1>3, <1>5
      <4>2. CASE g.target = out
        BY <1>3, <1>5, <4>2
      <4>3. CASE (g.target - out) * (out - measured) < 0
        BY <1>3, <1>5, <4>1, <4>3, Signs
      <4> QED BY <1>5, <2>1, <4>2, <4>3
    <3>3. CASE g.limited
      BY <1>3, <1>8, <1>9, <1>11, <3>2, <3>3
    <3>4. CASE ~g.limited
      <4>1. (g.target <= out => b <= out) /\ (g.target >= out => b >= out)
        BY <1>3, <1>5, <2>2, ConstantsTyped DEF Clip, Most, Least, Poses, Constants
      <4>2. command' = x
        BY <1>8, <1>11, <3>4
      <4>3. (x > out => ~(x <= command)) /\ (x < out => ~(x >= command))
        BY <1>3, <1>9, <1>10, <3>1, <4>2, NotFurther
      <4> QED BY <1>3, <1>9, <3>2, <4>1, <4>2, <4>3 DEF Poses
    <3> QED BY <3>3, <3>4
  <2>4. out' \in Int
    BY <1>12 DEF Poses
  <2>5. ~((out' - out) * (out - measured) > 0)
    BY <1>3, <2>3, <2>4, NoPush
  <2> QED BY <2>1, <2>5 DEF PushesOn
<1>17. ASSUME Settled(contact) PROVE Settled(contact') /\ SentGently
  <2>1. Settled(cc) /\ cc.resume = contact.resume
    BY <1>1, <1>17, AgedKeeps DEF Found, ShaperInv
  <2>2. /\ in.desired = desired /\ in.measured = measured /\ in.out = out
        /\ in.soft = desired
        /\ in = [desired |-> in.desired, measured |-> in.measured, load |-> in.load,
                 out |-> in.out, soft |-> in.desired, signal |-> in.signal]
    OBVIOUS
  <2> HIDE DEF in
  <2>3. Gentle(cc, in, g)
    BY <1>1, <1>4, <2>1, <2>2, GuardIsGentle
  <2>4. ASSUME g.limited
        PROVE  \/ out' = out
               \/ Least(out, g.target) <= out' /\ out' <= Most(out, g.target)
    BY <1>8, <1>9, <1>11, <2>4
  <2>5. contact' = g.contact /\ seen'.measured = measured /\ seen'.desired = desired
    BY <1>2
  <2>6. out' \in Int /\ g.target \in Int /\ out \in Int /\ measured \in Int
        /\ ResumeStep \in Nat /\ Preload \in Nat
    BY <1>3, <1>5, <1>12, ConstantsTyped DEF Poses, Constants
  <2>7. ASSUME contact.resume # None, contact'.state # "CONTACT_HOLD"
        PROVE  out' <= out + ResumeStep
    <3>1. g.limited /\ g.target <= out + ResumeStep
      BY <2>1, <2>2, <2>3, <2>5, <2>7 DEF Gentle
    <3> QED BY <2>4, <2>6, <3>1 DEF Most
  <2>8. ASSUME contact'.state = "CONTACT_HOLD"
        PROVE  out' <= Most(out, seen'.measured + Preload)
    <3>1. g.limited /\ g.target <= Most(out, measured + Preload)
      BY <2>2, <2>3, <2>5, <2>8 DEF Gentle
    <3> QED BY <2>4, <2>5, <2>6, <3>1 DEF Most
  <2>9. ASSUME contact'.state = "CONTACT_HOLD", contact'.openDesired = None,
               seen'.desired >= out
        PROVE  out' >= Least(out, seen'.measured)
    <3>1. g.limited /\ g.target >= Least(out, measured)
      BY <2>2, <2>3, <2>5, <2>9 DEF Gentle
    <3> QED BY <2>4, <2>5, <2>6, <3>1 DEF Least
  <2>10. Settled(contact')
    BY <2>3, <2>5 DEF Gentle
  <2> QED BY <2>7, <2>8, <2>9, <2>10 DEF SentGently
<1> QED BY <1>2, <1>5, <1>12, <1>13, <1>14, <1>15, <1>16, <1>17

LEMMA ShaperStep ==
  ASSUME ShaperInv, [Next]_vars
  PROVE  ShaperInv'
<1> USE DEF ShaperInv
<1>0. \A pose \in Poses : /\ Dist(pose, pose) <= Unsent
                          /\ [origin |-> pose, age |-> 0]
                               \in [origin : Poses \cup {None}, age : Nat]
  BY ConstantsTyped DEF Unsent, Dist, Most, Poses, Constants
<1>n. NoBlend \in [origin : Poses \cup {None}, age : Nat] /\ NoContact \in ContactType
  BY AgesTyped, ConstantsTyped DEF NoBlend, NoContact, ContactType, Constants
<1>b. ASSUME NEW pose \in Poses, BeginsBlend(pose)
      PROVE  /\ blend' \in [origin : Poses \cup {None}, age : Nat]
             /\ blend' # NoBlend => BlendTicks > 0
  BY <1>0, <1>n, <1>b, ConstantsTyped DEF BeginsBlend, Constants
<1>1. CASE Arm
  <2>1. PICK pose \in Poses : Seeded(pose) /\ BeginsBlend(pose)
    BY <1>1 DEF Arm
  <2> QED BY <1>0, <1>n, <1>b, <1>1, <2>1 DEF Arm, Seeded
<1>2. CASE Resume
  <2>1. PICK pose \in Poses : Seeded(pose) /\ BeginsBlend(pose)
    BY <1>2 DEF Resume
  <2> QED BY <1>0, <1>n, <1>b, <1>2, <2>1 DEF Resume, Seeded
<1>3. CASE Pause
  BY <1>n, <1>3 DEF Pause, Holds
<1>4. CASE PausedTick
  BY <1>4, Aged DEF PausedTick
<1>5. CASE Stop
  BY <1>n, <1>5 DEF Stop, Disarm, Holds
<1>6. CASE SendLatest
  <2>1. CASE mode' = "armed"
    BY <1>6, <2>1, SentStep
  <2>2. CASE mode' # "armed"
    <3>1. Disarm
      BY <1>6, <2>2 DEF SendLatest, Accepted, Rejected
    <3>2. contact' \in ContactType
      <4> DEFINE c == IF blind > Gap + 1 THEN AfterGap(contact) ELSE Sampled(contact)
      <4>1. c \in ContactType
        BY Aged
      <4>2. ASSUME NEW desired \in Poses, NEW measured \in Poses, NEW load \in Loads,
                   NEW signal \in ContactSignals,
                   NEW g \in GuardOutcomes(c, [desired |-> desired, measured |-> measured,
                        load |-> load, out |-> out, soft |-> desired, signal |-> signal])
            PROVE  g.contact \in ContactType
        <5> DEFINE in == [desired |-> desired, measured |-> measured, load |-> load,
                          out |-> out, soft |-> desired, signal |-> signal]
        <5>1. /\ in.desired = desired /\ in.load = load /\ InputTyped(in)
          BY DEF InputTyped, Poses
        <5>2. in = [desired |-> in.desired, measured |-> in.measured, load |-> in.load,
                    out |-> in.out, soft |-> in.soft, signal |-> in.signal]
          OBVIOUS
        <5>3. g \in GuardOutcomes(c, in)
          BY <4>2
        <5> HIDE DEF in, c
        <5> QED BY <4>1, <5>1, <5>2, <5>3, GuardAsks
      <4> HIDE DEF c
      <4>3. \E desired, measured \in Poses, load \in Loads, signal \in ContactSignals :
              \E g \in GuardOutcomes(c, [desired |-> desired, measured |-> measured,
                   load |-> load, out |-> out, soft |-> desired, signal |-> signal]) :
                contact' = g.contact
        BY <1>6 DEF SendLatest, c
      <4> QED BY <4>2, <4>3
    <3> QED BY <1>n, <2>2, <3>1, <3>2 DEF Disarm, Holds
  <2> QED BY <2>1, <2>2
<1>7. CASE UNCHANGED vars
  BY <1>7 DEF vars
<1> QED BY <1>1, <1>2, <1>3, <1>4, <1>5, <1>6, <1>7 DEF Next

(* What the shaper remembers of the motion, and the type of the contact.   *)
THEOREM ShaperInvariance == Spec => []ShaperInv
<1>1. Init => ShaperInv
  BY AgesTyped, ConstantsTyped DEF Init, ShaperInv, NoBlend, NoContact, ContactType,
                                   Constants, Poses
<1> QED BY <1>1, ShaperStep, PTL DEF Spec

(* Only a tick of the output timer leaves an armed output armed. *)
LEMMA TicksSend ==
  ASSUME [Next]_vars, Ticks
  PROVE  SendLatest \/ UNCHANGED vars
BY DEF Ticks, Next, Arm, Resume, Pause, PausedTick, Stop, Disarm

(* Each setpoint is within a step of the last one that the hand accepted   *)
(* or of the pose from which the motion began, whatever was paused,        *)
(* refused or too small to send in between (step, accept_output, hold).    *)
THEOREM StepsStayBounded == Spec => StepIsBounded
<1>1. ASSUME ShaperInv, [Next]_vars, Ticks PROVE Dist(out', out) <= MaxStep + Unsent
  <2>1. CASE SendLatest
    BY <1>1, <2>1, SentStep DEF Ticks
  <2>2. CASE UNCHANGED vars
    BY <1>1, <2>2, ConstantsTyped DEF vars, ShaperInv, Poses, Dist, Most, Unsent, Constants
  <2> QED BY <1>1, <2>1, <2>2, TicksSend
<1>2. ShaperInv /\ [Next]_vars
        => [Ticks => Dist(out', out) <= MaxStep + Most(MinSend - 1, 0)]_vars
  BY <1>1 DEF Unsent
<1> QED BY <1>2, ShaperInvariance, PTL DEF Spec, StepIsBounded

(* At a hard load no setpoint goes on in the direction in which the joint  *)
(* is already pushing, outside an arm blend and unless the fingertips are  *)
(* seen to separate (the freeze of update(), the bounds in step()).        *)
THEOREM HardLoadsFreeze == Spec => HardLoadFreezes
<1>1. ASSUME ShaperInv, SendLatest, Ticks, blend = NoBlend, seen'.hard PROVE ~PushesOn
  BY <1>1, SentStep DEF Ticks
<1>2. ShaperInv /\ [Next]_vars
        => [Ticks /\ blend = NoBlend /\ seen'.hard => ~PushesOn]_vars
  BY <1>1, TicksSend
<1> QED BY <1>2, ShaperInvariance, PTL DEF Spec, HardLoadFreezes
-----------------------------------------------------------------------------
(* A finger that is held, and one that was released. *)

(* A latch ends the offset of an earlier release. *)
HeldInv == ShaperInv /\ Settled(contact)

LEMMA GuardSettles ==
  ASSUME ShaperInv, SendLatest, Settled(contact)
  PROVE  Settled(contact')
<1>1. PICK desired \in Poses, measured \in Poses, load \in Loads,
           signal \in ContactSignals :
        \E g \in GuardOutcomes(Found, [desired |-> desired, measured |-> measured,
             load |-> load, out |-> out, soft |-> desired, signal |-> signal]) :
          contact' = g.contact
  BY DEF SendLatest, Found
<1> DEFINE in == [desired |-> desired, measured |-> measured, load |-> load,
                  out |-> out, soft |-> desired, signal |-> signal]
<1>2. PICK g \in GuardOutcomes(Found, in) : contact' = g.contact
  BY <1>1
<1>3. in.desired \in Poses /\ InputTyped(in)
  BY DEF ShaperInv, InputTyped, Poses
<1>4. in = [desired |-> in.desired, measured |-> in.measured, load |-> in.load,
            out |-> in.out, soft |-> in.desired, signal |-> in.signal]
  OBVIOUS
<1> HIDE DEF in
<1>5. Found \in ContactType /\ Settled(Found)
  BY Aged, AgedKeeps DEF Found, ShaperInv
<1>6. Gentle(Found, in, g)
  BY <1>2, <1>3, <1>4, <1>5, GuardIsGentle
<1> QED BY <1>2, <1>6 DEF Gentle

LEMMA HeldStep ==
  ASSUME HeldInv, [Next]_vars
  PROVE  HeldInv'
<1>1. ShaperInv'
  BY ShaperStep DEF HeldInv
<1>2. Settled(contact')
  <2> USE DEF HeldInv
  <2>1. CASE Arm
    BY <2>1 DEF Arm, NoContact, Settled
  <2>2. CASE Resume \/ Pause \/ Stop \/ UNCHANGED vars
    BY <2>2 DEF Resume, Pause, Stop, vars
  <2>3. CASE PausedTick
    BY <2>3, AgedKeeps DEF PausedTick, ShaperInv
  <2>4. CASE SendLatest
    BY <2>4, GuardSettles
  <2> QED BY <2>1, <2>2, <2>3, <2>4 DEF Next
<1> QED BY <1>1, <1>2 DEF HeldInv

THEOREM HeldInvariance == Spec => []HeldInv
<1>1. Init => HeldInv
  BY AgesTyped, ConstantsTyped DEF Init, HeldInv, Settled, ShaperInv, NoBlend, NoContact,
                                   ContactType, Constants, Poses
<1> QED BY <1>1, HeldStep, PTL DEF Spec

LEMMA SendsGently ==
  ASSUME HeldInv, SendLatest, Ticks
  PROVE  SentGently
BY SentStep DEF HeldInv, Ticks

(* A held finger is squeezed by the preload at most and, while the         *)
(* operator closes, never pulled back past its measured pose, whatever the *)
(* gains, the blend and the freeze make of its target (object_contact.py,  *)
(* bounded by step() in command_shaper.py).                                *)
THEOREM HoldStaysGentle == Spec => HoldIsGentle
<1>1. HeldInv /\ [Next]_vars =>
        [Ticks /\ contact'.state = "CONTACT_HOLD" =>
           /\ out' <= Most(out, seen'.measured + Preload)
           /\ contact'.openDesired = None /\ seen'.desired >= out
                => out' >= Least(out, seen'.measured)]_vars
  BY TicksSend, SendsGently DEF SentGently
<1> QED BY <1>1, HeldInvariance, PTL DEF Spec, HoldIsGentle

(* After a release, by the operator or for want of load, the finger closes *)
(* no faster than the resume rate until it has caught up, whether or not   *)
(* the release is interrupted by a pause, a gap or a contact that is not   *)
(* confirmed (resume_offset in object_contact.py).                         *)
THEOREM ReleasesStayGradual == Spec => ReleaseIsGradual
<1>1. HeldInv /\ [Next]_vars =>
        [Ticks /\ contact.resume # None /\ contact'.state # "CONTACT_HOLD"
           => out' <= out + ResumeStep]_vars
  BY TicksSend, SendsGently DEF SentGently
<1> QED BY <1>1, HeldInvariance, PTL DEF Spec, ReleaseIsGradual

-----------------------------------------------------------------------------
(* Types. *)

Blends == [origin : Poses \cup {None}, age : 0..BlendTicks]

LEMMA BlendAges ==
  ASSUME blend \in Blends
  PROVE  BlendLater \in Blends
<1>1. CASE BlendLater = NoBlend
  BY <1>1, ConstantsTyped DEF NoBlend, Blends, Constants
<1>2. CASE BlendLater # NoBlend
  <2>1. ~(blend.age + 1 >= BlendTicks) /\ BlendLater = [blend EXCEPT !.age = @ + 1]
    BY <1>2 DEF BlendLater
  <2>2. blend.age \in 0..BlendTicks
    BY DEF Blends
  <2>3. blend.age + 1 \in 0..BlendTicks
    BY <2>1, <2>2, ConstantsTyped DEF Constants
  <2> QED BY <2>1, <2>3 DEF Blends
<1> QED BY <1>1, <1>2

LEMMA TypeStep ==
  ASSUME TypeOK, TimerRuns, TimerRuns', ShaperInv, ShaperInv', [Next]_vars
  PROVE  TypeOK'
<1> USE ConstantsTyped DEF Constants, TypeOK, None, Disarm, Holds
<1>0. command' \in Poses /\ out' \in Poses /\ contact' \in ContactType
      /\ mode' \in {"off", "armed", "paused"} /\ tripping' \in None..TripHold
  BY DEF ShaperInv, TimerRuns
<1>n. /\ NoBlend \in [origin : Poses \cup {None}, age : 0..BlendTicks]
      /\ \A pose \in Poses : [origin |-> pose, age |-> 0]
                               \in [origin : Poses \cup {None}, age : 0..BlendTicks]
      /\ BlendLater \in [origin : Poses \cup {None}, age : 0..BlendTicks]
  <2>1. /\ NoBlend \in [origin : Poses \cup {None}, age : 0..BlendTicks]
        /\ \A pose \in Poses : [origin |-> pose, age |-> 0]
                                 \in [origin : Poses \cup {None}, age : 0..BlendTicks]
    BY DEF NoBlend
  <2>2. BlendLater \in Blends
    BY BlendAges DEF Blends
  <2> QED BY <2>1, <2>2 DEF Blends
<1>1. CASE Arm
  BY <1>0, <1>n, <1>1 DEF Arm, Seeded, BeginsBlend
<1>2. CASE Resume
  BY <1>0, <1>n, <1>2 DEF Resume, Seeded, BeginsBlend
<1>3. CASE Pause
  BY <1>0, <1>n, <1>3 DEF Pause
<1>4. CASE PausedTick
  BY <1>0, <1>n, <1>4 DEF PausedTick, Later
<1>5. CASE Stop
  BY <1>0, <1>n, <1>5 DEF Stop
<1>6. CASE SendLatest
  <2>1. /\ seen' \in [desired : Poses, measured : Poses, hard : BOOLEAN]
        /\ blind' = 0
        /\ \E on : stalling' \in {None, Timer(SinceGap(stalling), on, StallHold)}
        /\ \/ Disarm
           \/ /\ blend' = BlendLater
              /\ \E load : overloaded' = IF load = Trip THEN Later(overloaded, TripHold + 1)
                                                        ELSE 0
    BY <1>6 DEF SendLatest, Accepted, Rejected
  <2>2. stalling' \in None..StallHold
    BY <2>1 DEF Timer, SinceGap, Later
  <2>3. /\ blend' \in [origin : Poses \cup {None}, age : 0..BlendTicks]
        /\ overloaded' \in 0..(TripHold + 1)
    BY <1>n, <2>1 DEF Later
  <2> QED BY <1>0, <2>1, <2>2, <2>3
<1>7. CASE UNCHANGED vars
  BY <1>7 DEF vars
<1> QED BY <1>1, <1>2, <1>3, <1>4, <1>5, <1>6, <1>7 DEF Next

(* The types of the guard, the shaper and the contact: ages end at their   *)
(* thresholds, every command is within the range of the joint.             *)
THEOREM TypeCorrect == Spec => []TypeOK
<1>1. Init => TypeOK /\ TimerRuns /\ ShaperInv
  BY AgesTyped, ConstantsTyped DEF Init, TypeOK, TimerRuns, ShaperInv, NoBlend, NoContact,
                                   ContactType, Constants, Poses, None
<1>2. TypeOK /\ TimerRuns /\ ShaperInv /\ [Next]_vars => (TypeOK /\ TimerRuns /\ ShaperInv)'
  BY TypeStep, TimerStep, ShaperStep
<1> QED BY <1>1, <1>2, PTL DEF Spec
=============================================================================
