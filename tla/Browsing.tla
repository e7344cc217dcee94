------------------------------ MODULE Browsing ------------------------------
(***************************************************************************)
(* A session of a client as servers/README.md describes it: it lists the   *)
(* bucket with /files, again when the listing fails, and pages through a   *)
(* field of one of the files listed.  Listing and FieldPage share no       *)
(* variable; the client ties them together.                                *)
(***************************************************************************)
EXTENDS Listing, FieldPage

BrowsingVars == <<listingVars, vars>>

\* No field is picked yet: FieldPage has not begun.
Unpicked ==
  /\ server = "go" /\ field = CHOOSE f \in Fields : TRUE
  /\ start = 0 /\ next = 0 /\ collected = <<>> /\ page = ScalarPage
  /\ phase = "unpicked"

BrowsingInit == ListingInit /\ Unpicked

List == phase = "unpicked" /\ ListingNext /\ UNCHANGED vars

\* The client picks a file of the listing and starts to page through a field.
Pick ==
  /\ listing = "listed" /\ out # <<>>
  /\ listing' = "idle" /\ override' = NoOverride /\ continue' = 0
  /\ out' = <<>> /\ steady' = {} /\ seen' = {}
  /\ UNCHANGED <<bucket, changes, failures>>
  /\ server' \in {"go", "py"}
  /\ field' \in Fields
  /\ start' \in Offsets
  /\ next' = start'
  /\ phase' = "ask"
  /\ UNCHANGED <<collected, page>>

PageOn == phase # "unpicked" /\ Next /\ UNCHANGED listingVars

BrowsingNext == List \/ Pick \/ PageOn

\* The client goes on, the store answers every page that does not fail, and the
\* servers answer; nothing says that the bucket changes or that a page fails.
BrowsingSpec ==
  /\ BrowsingInit
  /\ [][BrowsingNext]_BrowsingVars
  /\ WF_BrowsingVars(phase = "unpicked" /\ Serve /\ UNCHANGED vars)
  /\ WF_BrowsingVars(Pick)
  /\ WF_BrowsingVars(PageOn)

-----------------------------------------------------------------------------

\* However the bucket changes under the listing and however the field is cut
\* into pages, a session comes to its end: the listing stops following tokens,
\* and then the client is told that nothing of the field is left.
SessionEnds == <>(phase = "done" \/ (listing = "listed" /\ out = <<>>))
=============================================================================
