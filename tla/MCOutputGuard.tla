--------------------------- MODULE MCOutputGuard ---------------------------
(* OutputGuard for one joint with a range of a few steps: enough to close  *)
(* on an object, to be held short of it, to open and to resume.            *)
EXTENDS OutputGuard

(* What the next tick does not depend on: what the last one read, how long *)
(* ago a held finger was found, and what a gap in the updates makes void.  *)
AfterBlindness == IF blind > Gap + 1 THEN AfterGap(contact) ELSE contact

Told(c) == IF c.state = "CONTACT_HOLD"
           THEN [c EXCEPT !.pending = None, !.evidence = None] ELSE c

View == <<mode, command, out, blend, Told(AfterBlindness), SinceGap(tripping),
          SinceGap(stalling), blind, overloaded>>
=============================================================================
