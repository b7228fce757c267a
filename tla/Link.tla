-------------------------------- MODULE Link --------------------------------
(***************************************************************************)
(* What one ConnectionManager promises to the machine pool, without the    *)
(* attempts, abort signals and disposals it takes to keep the promise: at  *)
(* most one published link to the target, published only on behalf of the  *)
(* newest request, and never after that request was a disconnect.          *)
(***************************************************************************)
EXTENDS Naturals

VARIABLES
  request,  \* number of the newest connect or disconnect call
  open,     \* TRUE while that call is a connect that may still publish
  link      \* number of the call whose executor is published, 0 for none

vars == <<request, open, link>>

Init == request = 0 /\ open = FALSE /\ link = 0

\* A connect call supersedes every earlier one and leaves the link in place.
Ask ==
  /\ request' = request + 1
  /\ open' = TRUE
  /\ UNCHANGED link

\* A disconnect call supersedes every earlier one and takes the link down.
Cancel ==
  /\ request' = request + 1
  /\ open' = FALSE
  /\ link' = 0

\* Only the newest request, while open, can publish: exactly once.
Establish ==
  /\ open
  /\ open' = FALSE
  /\ link' = request
  /\ UNCHANGED request

\* The newest request fails; whatever was published stays published.
GiveUp ==
  /\ open
  /\ open' = FALSE
  /\ UNCHANGED <<request, link>>

\* The target drops the published link.
Drop ==
  /\ link # 0
  /\ link' = 0
  /\ UNCHANGED <<request, open>>

Next == Ask \/ Cancel \/ Establish \/ GiveUp \/ Drop

Spec == Init /\ [][Next]_vars
=============================================================================
