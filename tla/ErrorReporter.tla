---------------------------- MODULE ErrorReporter ----------------------------
(***************************************************************************)
(* langutil::ErrorReporter (liblangutil/ErrorReporter.h and .cpp): the list *)
(* of errors and warnings that all stages of the compiler append to, and    *)
(* the two counters that limit it.                                          *)
(*                                                                         *)
(* A reporter is a record.  errorList holds which kinds of entries the list *)
(* has (how many, and their wording, decides nothing).  The counters stop   *)
(* one above their limit, from where on every larger value acts the same.   *)
(***************************************************************************)
EXTENDS Naturals

CONSTANTS
    MaxErrors,     \* c_maxErrorsAllowed (256)
    MaxWarnings    \* c_maxWarningsAllowed (256)

ASSUME ReporterAssumption == MaxErrors \in Nat \ {0} /\ MaxWarnings \in Nat \ {0}

Reporter ==
    [errorList    : SUBSET {"error", "warning", "too many errors", "too many warnings"},
     errorCount   : 0..(MaxErrors + 1),
     warningCount : 0..(MaxWarnings + 1)]

NewReporter == [errorList |-> {}, errorCount |-> 0, warningCount |-> 0]

Increment(n, max) == IF n > max THEN n ELSE n + 1

\* checkForExcessiveErrors throws a FatalError at the next error.
ErrorIsFatal(r) == r.errorCount >= MaxErrors

\* error() with a type other than Warning.
error(r) ==
    [r EXCEPT !.errorCount = Increment(@, MaxErrors),
              !.errorList  = @ \cup {IF ErrorIsFatal(r) THEN "too many errors" ELSE "error"}]

\* error() with type Warning: the one that makes the count reach the limit is
\* replaced by a notice, the later ones are dropped.
warning(r) ==
    LET count == Increment(r.warningCount, MaxWarnings)
    IN [r EXCEPT !.warningCount = count,
                 !.errorList = @ \cup
                    (IF count < MaxWarnings THEN {"warning"}
                     ELSE IF count = MaxWarnings THEN {"too many warnings"} ELSE {})]

\* append(): the list grows, the counters do not.
append(r, entries) == [r EXCEPT !.errorList = @ \cup entries]

\* clear(): the list is emptied, the counters stay.
clear(r) == [r EXCEPT !.errorList = {}]

hasErrors(r) == r.errorCount > 0

\* Error::containsOnlyWarnings(errors()): the "too many" notices are warnings.
containsOnlyWarnings(r) == "error" \notin r.errorList

=============================================================================
