------------------------------ MODULE PdfPrint ------------------------------
(***************************************************************************)
(* The print sessions of HellPdfRuntime (print, clearPrintSession and      *)
(* cleanup in features/pdf-viewer/pdf-viewer.runtime.ts) over the hidden   *)
(* iframes of features/pdf-viewer/pdf-viewer.print.ts.                     *)
(*                                                                         *)
(* A session is a hidden iframe and an object URL until its cleanup runs;  *)
(* a second cleanup of the same session does nothing.  The runtime keeps   *)
(* the cleanup of one session, and print awaits twice: the adapter's       *)
(* session, then the printing.                                             *)
(***************************************************************************)
EXTENDS Naturals

CONSTANT MaxPrints   \* bound: how many times print is called

PrintCall == 1 .. MaxPrints
NoPrint == 0

VARIABLES
  called,        \* how many calls of print were made
  pc,            \* where each call stands, or how it ended
  frames,        \* sessions whose iframe and object URL exist
  printCleanup,  \* this.printCleanup: the session it cleans up
  timer,         \* sessions whose delayed cleanup is pending
  disposed       \* runtime.cleanup ran

vars == <<called, pc, frames, printCleanup, timer, disposed>>

Init ==
  /\ called = 0
  /\ pc = [p \in PrintCall |-> "idle"]
  /\ frames = {}
  /\ printCleanup = NoPrint
  /\ timer = {}
  /\ disposed = FALSE

Goto(p, place) == pc' = [pc EXCEPT ![p] = place]

\* Fault: the reference is dropped, the session is not cleaned up.
ClearPrintSession_Forgets ==
  /\ frames' = frames
  /\ printCleanup' = NoPrint

ClearPrintSession ==
  /\ frames' = frames \ {printCleanup}
  /\ printCleanup' = NoPrint

\* print up to the await of createPrintSession.
CallPrint(p) ==
  /\ ~disposed
  /\ p = called + 1
  /\ called' = p
  /\ ClearPrintSession
  /\ Goto(p, "creating")
  /\ UNCHANGED <<timer, disposed>>

\* The adapter hands over a session.  Whatever this.printCleanup held is
\* overwritten, and a disposed runtime prints all the same.
SessionCreated(p) ==
  /\ pc[p] = "creating"
  /\ frames' = frames \cup {p}
  /\ printCleanup' = p
  /\ Goto(p, "printing")
  /\ UNCHANGED <<called, timer, disposed>>

\* createPrintSession rejects, before it made an iframe.
SessionRefused(p) ==
  /\ pc[p] = "creating"
  /\ Goto(p, "failed")
  /\ UNCHANGED <<called, frames, printCleanup, timer, disposed>>

\* session.print() resolved, which takes an iframe that is still there: the
\* session's own cleanup is put on a timer.
Printed(p) ==
  /\ pc[p] = "printing"
  /\ p \in frames
  /\ Goto(p, "printed")
  /\ timer' = timer \cup {p}
  /\ UNCHANGED <<called, frames, printCleanup, disposed>>

\* session.print() rejected: a blocked print, or an iframe removed under it.
PrintRejected(p) ==
  /\ pc[p] = "printing"
  /\ ClearPrintSession
  /\ Goto(p, "failed")
  /\ UNCHANGED <<called, timer, disposed>>

\* The timer of a printed session fires.  this.printCleanup is left alone.
TimerFires(p) ==
  /\ p \in timer
  /\ timer' = timer \ {p}
  /\ frames' = frames \ {p}
  /\ UNCHANGED <<called, pc, printCleanup, disposed>>

\* The print part of runtime.cleanup.
Dispose ==
  /\ ~disposed
  /\ disposed' = TRUE
  /\ ClearPrintSession
  /\ UNCHANGED <<called, pc, timer>>

PrintStep(p) ==
  \/ SessionCreated(p)
  \/ SessionRefused(p)
  \/ Printed(p)
  \/ PrintRejected(p)
  \/ TimerFires(p)

Next == Dispose \/ \E p \in PrintCall : CallPrint(p) \/ PrintStep(p)

Spec == Init /\ [][Next]_vars

-----------------------------------------------------------------------------

\* Sessions that neither a timer nor this.printCleanup will clean up.
Orphans == frames \ ({printCleanup} \cup timer)

\* A session loses its owner only to the session of a call that was made
\* before this one had its own: prints made one after the other never leave an
\* iframe nobody removes, however they end and whenever the runtime goes.
OrphansComeFromOverlap ==
  [][\A p \in Orphans' \ Orphans :
       \E q \in PrintCall \ {p} : pc[q] = "creating" /\ pc'[q] = "printing"]_vars

=============================================================================
