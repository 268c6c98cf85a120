--------------------------- MODULE DialogContract ---------------------------
(***************************************************************************)
(* What the modality of dialogs promises about the attributes it owns:     *)
(* every dialog holds a scope root, the page, or nothing, and at every     *)
(* moment the inert attribute of each root and the body's focus-trap       *)
(* attribute are a function of who holds what and of the attributes the    *)
(* page had of its own.  No order of opening and closing matters.          *)
(***************************************************************************)

CONSTANTS Dialog, Root, Page, Nobody

VARIABLES
  role,   \* per dialog: the root or page it holds, or Nobody
  owned,  \* the attributes as the page set them
  inert,  \* per root: its inert attribute
  trap    \* the body's focus-trap escape attribute

vars == <<role, owned, inert, trap>>

\* A root is blocked while a dialog holds it; the trap is released while
\* somebody holds a root and nobody the page.
InertUnder(held) ==
  [r \in Root |-> IF \E d \in Dialog : held[d] = r THEN "set" ELSE owned.inert[r]]

TrapUnder(held) ==
  IF (\E d \in Dialog : held[d] \in Root) /\ (\A d \in Dialog : held[d] # Page)
    THEN "released" ELSE owned.trap

Init ==
  /\ role = [d \in Dialog |-> Nobody]
  /\ inert = owned.inert
  /\ trap = owned.trap

\* One dialog takes, changes or drops what it holds; both attributes follow.
Hold(d, what) ==
  /\ role' = [role EXCEPT ![d] = what]
  /\ inert' = InertUnder(role')
  /\ trap' = TrapUnder(role')
  /\ UNCHANGED owned

Next == \E d \in Dialog, what \in Root \cup {Page, Nobody} : Hold(d, what)

Spec == Init /\ [][Next]_vars
=============================================================================
