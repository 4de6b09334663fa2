---------------------------- MODULE SourceStatus ----------------------------
(***************************************************************************)
(* The status of a registered source, and what one run makes of it:        *)
(* sourceHealth.healthStatusFor and SourceRegistry.deriveStatus.           *)
(***************************************************************************)
EXTENDS Integers

CONSTANTS
    DegradeAfter,    \* consecutive failures that make a source DEGRADED (3)
    DisableAfter     \* consecutive failures that make it DISABLED (8)

ASSUME SourceStatusAssumption == DegradeAfter \in Nat /\ DisableAfter \in Nat \ {0}

SOURCE_STATUS == {"ACTIVE", "DEGRADED", "REVIEW", "DISABLED", "NOT_CONFIGURED"}
ERROR_CLASS == {"NETWORK", "SCHEMA_CHANGED", "PARSE_FAILED", "ROBOTS_DENIED",
                "NOT_CONFIGURED", "UNKNOWN"}

\* Mutant: nothing but an operator heals a source.
healthStatusForSticky(status, isCredible, ok) ==
    IF ~isCredible THEN "DEGRADED" ELSE status

healthStatusFor(status, isCredible, ok) ==
    IF ~isCredible THEN "DEGRADED"
    ELSE IF status = "DEGRADED" /\ ok THEN "ACTIVE"
    ELSE status

\* What a failed run makes of the status; class is its first error.
deriveStatus(status, fails, class) ==
    IF class = "NOT_CONFIGURED" THEN "NOT_CONFIGURED"
    ELSE IF class = "ROBOTS_DENIED" THEN "DISABLED"
    ELSE IF fails >= DisableAfter THEN "DISABLED"
    ELSE IF fails >= DegradeAfter THEN "DEGRADED"
    ELSE IF class = "SCHEMA_CHANGED" THEN "REVIEW"
    ELSE status
=============================================================================
