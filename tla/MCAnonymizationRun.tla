------------------------- MODULE MCAnonymizationRun -------------------------
(***************************************************************************)
(* Instances of AnonymizationRun for TLC.                                  *)
(***************************************************************************)
EXTENDS AnonymizationRun

Plain == [dryRun |-> FALSE, pointer |-> TRUE, retain |-> FALSE, hold |-> FALSE,
          backoffLimit |-> 1]

\* A published Run, an unpublished one that retains failures, a held dry run.
MCSpecs == {Plain,
            [Plain EXCEPT !.retain = TRUE, !.pointer = FALSE, !.backoffLimit = 0],
            [Plain EXCEPT !.dryRun = TRUE, !.hold = TRUE]}

PlainSpecs == {Plain}

\* A Run that never retries.
SingleAttemptSpecs == {[Plain EXCEPT !.backoffLimit = 0]}

\* The user may change the retention of failures.
RetainSpecs == {Plain, [Plain EXCEPT !.retain = TRUE]}

=============================================================================
