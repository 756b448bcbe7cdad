---------------------------- MODULE AcademicRisk ----------------------------
(***************************************************************************)
(* The scoring of a telemetry window (src/academic/riskScoring.js), the    *)
(* risk a device record adds to it (src/device/scannerRiskPolicy.js) and   *)
(* the range checks a window passes first (server.js, sanitiseTelemetry).  *)
(* Pure operators: no state.                                               *)
(*                                                                         *)
(* Weights are in hundredths, so that Math.round of the weighted sum is    *)
(* (sum + 50) \div 100; the binary rounding of a sum that is exactly half  *)
(* a point is the one thing this leaves out.                               *)
(***************************************************************************)
EXTENDS Integers

Rank(level) == CASE level = "Critical" -> 2 [] level = "Warning" -> 1 [] OTHER -> 0

AtLeast(x, y) == IF x >= y THEN x ELSE y

AtMost(x, y) == IF x <= y THEN x ELSE y

-----------------------------------------------------------------------------
(* What a window may carry: the documented maximum of each counter.  One   *)
(* that is over its maximum is clamped to it (over twice the maximum the   *)
(* window is refused).                                                     *)
FieldMax ==
  [ typed |-> 5000, wpm |-> 1000, blurs |-> 200, offMs |-> 600000,
    paste |-> 200000, idleMs |-> 600000 ]

Sanitised(raw) == [f \in DOMAIN FieldMax |-> AtMost(FieldMax[f], raw[f])]

-----------------------------------------------------------------------------
PasteRisk(t) ==
  IF t.paste >= 80 THEN 100 ELSE IF t.paste >= 50 THEN 60
  ELSE IF t.paste > 0 THEN 20 ELSE 0

FocusRisk(t) ==
  LET away == IF t.offMs >= 30000 THEN 40 ELSE IF t.offMs >= 10000 THEN 20
              ELSE IF t.offMs >= 3000 THEN 10 ELSE 0
      blur == IF t.blurs >= 4 THEN 80 ELSE IF t.blurs >= 2 THEN 50
              ELSE IF t.blurs = 1 THEN 20 ELSE 0
  IN AtMost(100, blur + away)

TypingRisk(t) == IF t.wpm >= 250 THEN 90 ELSE IF t.wpm >= 180 THEN 50 ELSE 0

IdleRisk(t) ==
  IF t.idleMs >= 60000 /\ t.paste >= 80 THEN 80
  ELSE IF t.idleMs >= 8000 /\ t.paste > 0 THEN 50
  ELSE IF t.idleMs >= 30000 THEN 30 ELSE 0

ReconnectRisk(session) ==
  IF session.reconnects >= 3 THEN 80 ELSE IF session.reconnects = 2 THEN 40 ELSE 0

(* The weighted sum in hundredths.  helper: [connected, hostile, device    *)
(* (0..100), forced]; session: [reconnects, aged], aged when the session   *)
(* is more than thirty seconds old.                                        *)
Weighted(t, helper, session) ==
    25 * PasteRisk(t) + 18 * FocusRisk(t) + 15 * TypingRisk(t) + 10 * IdleRisk(t)
  + 18 * (IF helper.hostile THEN 100 ELSE 0)
  +  5 * (IF ~helper.connected /\ session.aged THEN 100 ELSE 0)
  +  9 * helper.device
  +  5 * ReconnectRisk(session)

(* The floors are applied in this order, each to the score so far.         *)
Score(t, helper, session) ==
  LET weighted == AtMost(100, (Weighted(t, helper, session) + 50) \div 100)
      pasted   == IF t.paste >= 200 /\ t.typed < 20 THEN AtLeast(weighted, 75)
                  ELSE weighted
      medium   == IF t.paste >= 80 THEN AtLeast(pasted, 40) ELSE pasted
      hostile  == IF helper.hostile THEN AtLeast(medium, 85) ELSE medium
      device   == IF helper.device >= 40 /\ ~helper.forced
                  THEN AtLeast(hostile, 40) ELSE hostile
  IN IF helper.forced THEN AtLeast(device, 85) ELSE device

LevelOf(score) ==
  IF score >= 70 THEN "Critical" ELSE IF score >= 40 THEN "Warning" ELSE "Safe"

-----------------------------------------------------------------------------
Unreadable == {"scanner_unavailable", "permission_denied", "scan_error"}

WaylandLimits == {"wayland_compositor_restricted", "wayland_compositor_unsupported",
                  "xwayland_detected"}

PartialCoverage == {"wayland_limited", "xwayland_partial"}

StateRisk(state) ==
  CASE state = "untrusted" -> 50
    [] state = "unpaired" -> 25
    [] state = "stale" -> 20
    [] state = "missing" -> 15
    [] OTHER -> 0

(* A device record: state, the largest counts ever verified (aboveMax of    *)
(* windows that are always on top or override-redirect), the last scanner  *)
(* state and coverage.  The cases of 40 come first among the others, as in *)
(* the code: a device that is both untrusted and partly covered counts 40.  *)
DeviceRisk(d) ==
  IF d.excludedMax > 0 \/ d.state = "risk_detected" THEN 100
  ELSE IF \/ d.restrictedMax > 0 \/ d.monitorMax > 0 \/ d.aboveMax > 0
          \/ d.scanner \in {"restricted_detected"} \cup Unreadable \cup WaylandLimits
          \/ d.coverage \in PartialCoverage
  THEN 40
  ELSE StateRisk(d.state)

ForcesCritical(d) == d.excludedMax > 0 \/ d.state = "risk_detected"

-----------------------------------------------------------------------------
(* The score written the way the comments beside it read: which evidence   *)
(* decides the level whatever the weighted sum says.                       *)
HardCritical(t, helper) ==
  (t.paste >= 200 /\ t.typed < 20) \/ helper.hostile \/ helper.forced

AtLeastWarning(t, helper) == t.paste >= 80 \/ helper.device >= 40

(* One window shows no less than another: every counter that is evidence   *)
(* is at least as high, and no more was typed by hand.                     *)
NoLess(t, u) ==
  /\ u.paste >= t.paste /\ u.blurs >= t.blurs /\ u.offMs >= t.offMs
  /\ u.wpm >= t.wpm /\ u.idleMs >= t.idleMs /\ u.typed <= t.typed
=============================================================================
