------------------------------ MODULE Catalog ------------------------------
(***************************************************************************)
(* A reader going through the claims of one identifier, page by page, over *)
(* the RPC server, while deposits and removals by owners, sponsors and     *)
(* relayers (OnBehalfAuth) change them.                                    *)
(*                                                                         *)
(* A query is answered in the state of a finished block: the one the       *)
(* reader names (`at`), or else the best block of that moment, so a reader *)
(* who names none meets a different state at each page (at_hash).          *)
(***************************************************************************)
EXTENDS OnBehalfAuth, ClaimLookup

CONSTANTS
  ReadInstance,    \* the instance whose lookups are read
  ReadIdentifier,
  Limits           \* the page sizes a reader asks for; 0 asks for nothing

ASSUME CatalogAssumption ==
  /\ ReadInstance \in Instances
  /\ IsInjective(HashRank) /\ DOMAIN HashRank = Ids /\ \A id \in Ids : HashRank[id] \in Nat
  /\ MaxLookupScan \in Nat \ {0} /\ MaxLookupLimit \in Nat \ {0}
  /\ Limits \subseteq Nat \ {0}

VARIABLES
  sealed,    \* the claims as the best block left them
  phase, pinned, limit,  \* of the reader: how far it is, and what it asks for
  snapshot,  \* the claims in the block it began at
  count,     \* what that block answered to its count
  pages,     \* what it was given, page by page
  cursor,    \* the last id of the last page
  always, ever, crowded  \* history: the ids claimed at every and at some block
                         \* since it began, and whether one had too many

readerVars == <<phase, pinned, limit, snapshot, count, pages, cursor>>
historyVars == <<always, ever, crowded>>
vars == <<authVars, sealed, readerVars, historyVars>>

CatalogInit ==
  /\ Init /\ sealed = {}
  /\ phase = "idle" /\ pinned = FALSE /\ limit = 0 /\ snapshot = {} /\ count = 0
  /\ pages = <<>> /\ cursor = NoCursor
  /\ always = {} /\ ever = {} /\ crowded = FALSE

Claims == {id \in DOMAIN records[ReadInstance] :
             Identifier[records[ReadInstance][id].item] = ReadIdentifier}

ChainCall == (\E i \in Instances : Call(i)) /\ UNCHANGED <<sealed, readerVars, historyVars>>

Crowded(claims) == Cardinality(claims) > MaxLookupScan

\* The block before the new one is the best block now.
Import(g) ==
  /\ BeginBlock(g)
  /\ sealed' = IF g = ReadInstance.genesis THEN Claims ELSE sealed
  /\ always' = always \cap sealed' /\ ever' = ever \cup sealed'
  /\ crowded' = (crowded \/ Crowded(sealed'))
  /\ UNCHANGED readerVars

\* at_hash.
StateAt == IF pinned THEN snapshot ELSE sealed

Start ==
  /\ phase = "idle" /\ phase' = "listing"
  /\ pinned' \in BOOLEAN /\ limit' \in Limits
  /\ snapshot' = sealed /\ count' = CountByIdentifier(sealed)
  /\ always' = sealed /\ ever' = sealed /\ crowded' = Crowded(sealed)
  /\ UNCHANGED <<authVars, sealed, pages, cursor>>

\* "The natural cursor for the next page is the last id of the returned vector."
NextPage ==
  /\ phase = "listing"
  /\ LET page == LookupPaged(StateAt, cursor, limit)
     IN  IF page = {}
         THEN phase' = "done" /\ UNCHANGED <<pages, cursor>>
         ELSE pages' = Append(pages, page) /\ cursor' = Max(page) /\ UNCHANGED phase
  /\ UNCHANGED <<authVars, sealed, pinned, limit, snapshot, count, historyVars>>

CatalogNext == ChainCall \/ (\E g \in Chains : Import(g)) \/ Start \/ NextPage

CatalogSpec == CatalogInit /\ [][CatalogNext]_vars

-----------------------------------------------------------------------------
(* Properties.                                                             *)

\* A page is sorted, and so then is what the pages list one after the other.
InOrder == \A p, q \in DOMAIN pages : p < q => \A x \in pages[p], y \in pages[q] : x < y

Listed == UNION Range(pages)

\* Whatever happens to the chain between two pages, no id is listed twice, none
\* that was never claimed, and a finished listing has every id that was claimed
\* all along, as long as no block held more claims than MAX_LOOKUP_SCAN
\* (lookup_by_identifier_paged: "the `after` cursor is exact").
ListingComplete ==
  /\ InOrder
  /\ Listed \subseteq ever
  /\ phase = "done" /\ ~crowded => always \subseteq Listed

\* A reader who stays at one block lists exactly as many ids as that block's
\* count says, also where both stop at MAX_LOOKUP_SCAN, and none is missing
\* while the count is below it.
CountMatchesListing ==
  phase = "done" /\ pinned =>
    /\ Cardinality(Listed) = count
    /\ count < MaxLookupScan => Listed = snapshot
=============================================================================
