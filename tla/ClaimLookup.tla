----------------------------- MODULE ClaimLookup -----------------------------
(***************************************************************************)
(* The reverse lookup of pallet-midds: the ids claimed under an industry   *)
(* identifier, as the runtime API and the RPC server hand them out.        *)
(*                                                                         *)
(* The claims of one identifier are a set of ids.  Storage walks them in   *)
(* the order of their hashes (Twox64Concat), which has nothing to do with  *)
(* the order of the ids; a page is sorted, so it is given as a set.        *)
(***************************************************************************)
EXTENDS FiniteSetsExt, Integers

CONSTANTS
  HashRank,        \* the place of each id in storage order
  MaxLookupScan,   \* MAX_LOOKUP_SCAN
  MaxLookupLimit   \* MAX_LOOKUP_LIMIT

NoCursor == -1

\* The first n members of S, by rank.
FirstBy(S, rank, n) == {x \in S : Cardinality({y \in S : rank[y] < rank[x]}) < n}

\* iter_prefix(identifier).take(MAX_LOOKUP_SCAN).
Scanned(claims) == FirstBy(claims, HashRank, MaxLookupScan)

\* Mutant of LookupPaged: truncated first, sorted afterwards.
TruncatedUnsorted(claims, after, limit) ==
  FirstBy({id \in Scanned(claims) : id > after}, HashRank, Min({limit, MaxLookupLimit}))

\* lookup_by_identifier_paged; lookup_by_identifier is the first page at the
\* largest limit.
LookupPaged(claims, after, limit) ==
  LET ids == {id \in Scanned(claims) : id > after}
  IN  FirstBy(ids, [id \in ids |-> id], Min({limit, MaxLookupLimit}))

\* Mutant of CountByIdentifier: nothing bounds the scan.
CountWhole(claims) == Cardinality(claims)

CountByIdentifier(claims) == Cardinality(Scanned(claims))
=============================================================================
