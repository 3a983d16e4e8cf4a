---------------------------- MODULE MCResonance ----------------------------
(***************************************************************************)
(* The limiter and the breaker of the resonance widget (Resonance), as     *)
(* they are checked and as they are proved about.                          *)
(***************************************************************************)

CONSTANTS Requests, UserLimit, GlobalLimit, Window, TransientThreshold, ConfigCooldown,
          TransientCooldown

VARIABLES rate, failures, openFor, request, server, enabled, passed, quiet, served

Limiter == INSTANCE Resonance

ASSUME LimiterAssumption == Limiter!ResonanceConstants

LimiterSpec == Limiter!FairSpec

-----------------------------------------------------------------------------
(* Resonance: the breaker opens after no more configuration errors than    *)
(* there are requests at once.                                             *)
ConfigErrorsOpenBreaker == Limiter!ConfigErrorsOpenBreaker

(* Resonance: what a window lets through beyond its limit is bounded by    *)
(* the requests at once.                                                   *)
WindowsLimit == Limiter!WindowsLimit

(* Resonance: while resonance answers, the widget is served again.         *)
WidgetRecovers == Limiter!WidgetRecovers
=============================================================================
