------------------------- MODULE RecordEntry_proofs -------------------------
(***************************************************************************)
(* What the builders of midds-validate report, for every call of their     *)
(* methods, in any order and any number: build() names every entry at      *)
(* fault and no other, and what it builds has an entry for each call.      *)
(* Then what the chain's rules say of records: of what was built they      *)
(* refuse only what build() leaves to them.  Then the sessions of a single *)
(* identifier: the parsers emit what the chain accepts, and a check digit  *)
(* catches every slip.  Last, the form: what it submits can break nothing  *)
(* but a rule between fields.                                              *)
(*                                                                         *)
(* The argument has three levels.  A part of a record (an option, a list,  *)
(* a list of the entries of lists) Names a set of faults when it is an     *)
(* error exactly if the set is not empty and its diagnostics are those.    *)
(* Each field's part names the faults of its field; the builders of the    *)
(* three kinds put their parts together, in an order that has every part   *)
(* that may fail (Assembly), so that the record's diagnostics are the      *)
(* union.  The invariant DraftInv says that every state of a session has   *)
(* a draft of its kind, so that this applies to every build().             *)
(***************************************************************************)
EXTENDS RecordEntry, Identifiers_proofs

-----------------------------------------------------------------------------
(* Diagnostics and results.                                                *)

FieldNames ==
  Lists \cup {"iswc", "isrc", "upc", "title", "artist", "work", "places", "distributor_name",
              "offchain_extension"}
Diagnostics == [field : FieldNames, entry : Nat]
Diagnostic(f, i) == [field |-> f, entry |-> i]

\* A result that names these faults, and has a value if there is none.
Names(r, faults) ==
  /\ r.errs \in Seq(Diagnostics)
  /\ \A x : Holds(r.errs, x) <=> x \in faults
  /\ faults = {} => r.errs = <<>> /\ r.val = Some(r.val[1])

\* That of an entry has no value otherwise.
Judged(r, faults) == Names(r, faults) /\ (faults # {} => r.val = None)

\* The faults of a list: its faulty entries and, if more than ListMax are left, itself.
ListFaults(field, n, faulty) ==
  {Diagnostic(field, i) : i \in faulty}
    \cup (IF n - Cardinality(faulty) > ListMax THEN {Diagnostic(field, 0)} ELSE {})

\* The values of the results of a list.
Values(results) == [i \in DOMAIN results |-> results[i].val[1]]

LEMMA GoodJudged == ASSUME NEW v PROVE Judged(Good(v), {}) /\ Good(v).val = <<v>>
  BY DEF Judged, Names, Good, Some, Holds

LEMMA BadJudged ==
  ASSUME NEW f \in FieldNames, NEW i \in Nat
  PROVE  Judged(Bad(f, i), {Diagnostic(f, i)})
<1>1. Bad(f, i).errs = <<Diagnostic(f, i)>> /\ Bad(f, i).val = None
  BY DEF Bad, Diagnostic
<1>2. Diagnostic(f, i) \in Diagnostics
  BY DEF Diagnostic, Diagnostics
<1>3. \A x : Holds(<<Diagnostic(f, i)>>, x) <=> x = Diagnostic(f, i)
  BY HoldsOne
<1> QED BY <1>1, <1>2, <1>3 DEF Judged, Names

\* The results of a list, each judged alone, put together.
LEMMA CollectedNames ==
  ASSUME NEW field \in FieldNames, NEW n \in Nat, NEW faulty \in SUBSET (1..n),
         NEW results, DOMAIN results = 1..n,
         \A i \in 1..n : Judged(results[i], IF i \in faulty THEN {Diagnostic(field, i)} ELSE {})
  PROVE  /\ Names(Collected(field, results), ListFaults(field, n, faulty))
         /\ ListFaults(field, n, faulty) = {} =>
              Collected(field, results).val = <<Values(results)>>
<1> DEFINE errs == [i \in 1..n |-> results[i].errs]
           vals == [i \in 1..n |-> results[i].val]
           T == {results[i].val[1] : i \in 1..n}
<1>0. DOMAIN results = 1..n
  OBVIOUS
<1>1. \A i \in faulty : Names(results[i], {Diagnostic(field, i)}) /\ results[i].val = None
  BY DEF Judged
<1>2. \A i \in (1..n) \ faulty : Names(results[i], {})
  BY DEF Judged
<1>3. ASSUME NEW i \in 1..n PROVE results[i].errs \in Seq(Diagnostics)
  BY <1>1, <1>2 DEF Names
<1>4. ASSUME NEW i \in 1..n
      PROVE  /\ vals[i] \in Seq(T) /\ Len(vals[i]) <= 1
             /\ vals[i] # <<>> <=> i \notin faulty
             /\ i \notin faulty => vals[i][1] = results[i].val[1]
  <2>1. CASE i \in faulty
    <3>1. vals[i] = <<>>
      BY <2>1, <1>1 DEF Names, None
    <3>2. vals[i] \in Seq(T) /\ Len(vals[i]) = 0
      <4> HIDE DEF T, vals
      <4> QED BY <3>1
    <3> QED BY <3>1, <3>2, <2>1
  <2>2. CASE i \notin faulty
    <3>1. vals[i] = <<results[i].val[1]>>
      BY <2>2, <1>2 DEF Names, Some
    <3>2. results[i].val[1] \in T
      OBVIOUS
    <3> HIDE DEF T, vals
    <3>3. vals[i] \in Seq(T) /\ Len(vals[i]) = 1 /\ vals[i][1] = results[i].val[1]
      BY <3>1, <3>2
    <3>4. vals[i] # <<>>
      <4>1. Len(<<>>) # 1
        OBVIOUS
      <4> QED BY <3>3, <4>1, Zenon
    <3> QED BY <3>3, <3>4, <2>2
  <2> QED BY <2>1, <2>2
<1>5. errs \in Seq(Seq(Diagnostics)) /\ DOMAIN errs = 1..n
  BY <1>3
<1>6. /\ Errors(results) \in Seq(Diagnostics)
      /\ \A x : Holds(Errors(results), x) <=> \E i \in faulty : x = Diagnostic(field, i)
  <2>1. Errors(results) = FlattenSeq(errs)
    BY <1>0 DEF Errors
  <2>2. \A i \in 1..n : \A x : Holds(errs[i], x) <=> i \in faulty /\ x = Diagnostic(field, i)
    <3> SUFFICES ASSUME NEW i \in 1..n, NEW x
                 PROVE  Holds(errs[i], x) <=> i \in faulty /\ x = Diagnostic(field, i)
      OBVIOUS
    <3>1. CASE i \in faulty
      BY <3>1, <1>1 DEF Names
    <3>2. CASE i \notin faulty
      BY <3>2, <1>2 DEF Names
    <3> QED BY <3>1, <3>2
  <2> HIDE DEF errs
  <2>3. /\ FlattenSeq(errs) \in Seq(Diagnostics)
        /\ \A x : Holds(FlattenSeq(errs), x) <=> \E i \in DOMAIN errs : Holds(errs[i], x)
    BY <1>5, FlattenFacts
  <2>4. ASSUME NEW x
        PROVE  (\E i \in DOMAIN errs : Holds(errs[i], x))
            <=> \E i \in faulty : x = Diagnostic(field, i)
    <3>1. DOMAIN errs = 1..n /\ faulty \subseteq 1..n
      BY <1>5
    <3> QED BY <3>1, <2>2, Zenon
  <2> QED BY <2>1, <2>3, <2>4
<1>7. /\ Kept(results) = FlattenSeq(vals) /\ vals \in Seq(Seq(T)) /\ DOMAIN vals = 1..n
  <2> HIDE DEF T
  <2> QED BY <1>0, <1>4 DEF Kept
<1>8. {i \in DOMAIN vals : vals[i] # <<>>} = (1..n) \ faulty
  BY <1>4, <1>7
<1>9. /\ Len(FlattenSeq(vals)) = Cardinality((1..n) \ faulty)
      /\ faulty = {} => FlattenSeq(vals) = [i \in 1..n |-> vals[i][1]]
  <2> HIDE DEF T, vals
  <2>1. \A i \in DOMAIN vals : Len(vals[i]) <= 1
    BY <1>4, <1>7
  <2>2. /\ Len(FlattenSeq(vals)) = Cardinality({i \in DOMAIN vals : vals[i] # <<>>})
        /\ (\A i \in DOMAIN vals : vals[i] # <<>>) =>
             FlattenSeq(vals) = [i \in DOMAIN vals |-> vals[i][1]]
    BY <2>1, <1>7, FlattenOptions
  <2>3. faulty = {} => \A i \in DOMAIN vals : vals[i] # <<>>
    BY <1>4, <1>7
  <2>4. Len(FlattenSeq(vals)) = Cardinality((1..n) \ faulty)
    BY <1>8, <2>2
  <2>5. faulty = {} => FlattenSeq(vals) = [i \in DOMAIN vals |-> vals[i][1]]
    BY <2>2, <2>3
  <2> QED BY <2>4, <2>5, <1>7
<1>10. Cardinality((1..n) \ faulty) = n - Cardinality(faulty)
  <2>1. IsFiniteSet(1..n) /\ Cardinality(1..n) = n
    BY FS_Interval
  <2>2. IsFiniteSet(faulty) /\ faulty \cap (1..n) = faulty
    BY <2>1, FS_Subset
  <2>3. Cardinality((1..n) \ faulty) = Cardinality(1..n) - Cardinality((1..n) \cap faulty)
    BY <2>1, FS_Difference
  <2>4. (1..n) \cap faulty = faulty
    OBVIOUS
  <2> QED BY <2>1, <2>3, <2>4
<1> DEFINE all == Collected(field, results)
           over == n - Cardinality(faulty) > ListMax
<1>11. Len(Kept(results)) > ListMax <=> over
  <2> HIDE DEF vals
  <2> QED BY <1>7, <1>9, <1>10
<1>12. CASE over
  <2>1. all.errs = Errors(results) \o <<Diagnostic(field, 0)>> /\ all.val = None
    BY <1>11, <1>12 DEF Collected, Bad, Diagnostic
  <2>2. <<Diagnostic(field, 0)>> \in Seq(Diagnostics)
    BY DEF Diagnostic, Diagnostics
  <2>3. \A x : Holds(<<Diagnostic(field, 0)>>, x) <=> x = Diagnostic(field, 0)
    BY HoldsOne
  <2>4. ASSUME NEW x
        PROVE Holds(all.errs, x)
            <=> (\E i \in faulty : x = Diagnostic(field, i)) \/ x = Diagnostic(field, 0)
    <3>1. Holds(Errors(results) \o <<Diagnostic(field, 0)>>, x)
            <=> Holds(Errors(results), x) \/ Holds(<<Diagnostic(field, 0)>>, x)
      <4> DEFINE a == Errors(results)
                 b == <<Diagnostic(field, 0)>>
      <4>1. a \in Seq(Diagnostics) /\ b \in Seq(Diagnostics)
        BY <1>6, <2>2
      <4> HIDE DEF a, b
      <4>2. Holds(a \o b, x) <=> Holds(a, x) \/ Holds(b, x)
        BY <4>1, ConcatHolds
      <4> QED BY <4>2 DEF a, b
    <3> HIDE DEF all
    <3> QED BY <3>1, <2>1, <1>6, <2>3
  <2>5. all.errs \in Seq(Diagnostics)
    <3> DEFINE a == Errors(results)
               b == <<Diagnostic(field, 0)>>
    <3>1. a \in Seq(Diagnostics) /\ b \in Seq(Diagnostics)
      BY <1>6, <2>2
    <3> HIDE DEF a, b
    <3>2. a \o b \in Seq(Diagnostics)
      BY <3>1
    <3> HIDE DEF all
    <3> QED BY <3>2, <2>1 DEF a, b
  <2>6. ListFaults(field, n, faulty) =
            {Diagnostic(field, i) : i \in faulty} \cup {Diagnostic(field, 0)}
    BY <1>12 DEF ListFaults
  <2>7. ListFaults(field, n, faulty) # {}
    BY <2>6
  <2>8. \A x : Holds(all.errs, x) <=> x \in ListFaults(field, n, faulty)
    BY <2>4, <2>6
  <2> QED BY <2>1, <2>5, <2>7, <2>8 DEF Names
<1>13. CASE ~over
  <2>1. all.errs = Errors(results) /\ all.val = <<Kept(results)>>
    BY <1>11, <1>13 DEF Collected, Some
  <2>2. ListFaults(field, n, faulty) = {Diagnostic(field, i) : i \in faulty}
    BY <1>13 DEF ListFaults
  <2>3. \A x : Holds(all.errs, x) <=> x \in ListFaults(field, n, faulty)
    BY <2>1, <2>2, <1>6
  <2>4. ListFaults(field, n, faulty) = {} => faulty = {}
    BY <2>2
  <2>5. ListFaults(field, n, faulty) # {} => faulty # {}
    BY <2>2
  <2>6. faulty = {} => Errors(results) = <<>>
    BY <1>6, HoldsNothing
  <2>7. faulty = {} => Kept(results) = [i \in 1..n |-> results[i].val[1]]
    <3>1. ASSUME faulty = {} PROVE [i \in 1..n |-> vals[i][1]] = [i \in 1..n |-> results[i].val[1]]
      OBVIOUS
    <3> HIDE DEF vals
    <3> QED BY <3>1, <1>7, <1>9
  <2>8. Names(all, ListFaults(field, n, faulty))
    <3>1. all.errs \in Seq(Diagnostics) /\ all.val = Some(all.val[1])
      BY <2>1, <1>6 DEF Some
    <3>2. ListFaults(field, n, faulty) = {} => all.errs = <<>>
      BY <2>1, <2>4, <2>6
    <3> HIDE DEF all
    <3> QED BY <3>1, <3>2, <2>3 DEF Names
  <2>9. ListFaults(field, n, faulty) = {} => all.val = <<Values(results)>>
    <3>1. Values(results) = [i \in 1..n |-> results[i].val[1]]
      BY <1>0 DEF Values
    <3> HIDE DEF all
    <3> QED BY <2>1, <2>4, <2>7, <3>1
  <2> QED BY <2>8, <2>9
<1> QED BY <1>12, <1>13

\* The values of the parts and the typed fields together.
Whole(F, parts, typed) ==
  [f \in F \cup DOMAIN typed |-> IF f \in F THEN parts[f].val[1] ELSE typed[f]]

\* The parts of a record put together: the diagnostics are those of the parts,
\* and a record without any is built from their values.
LEMMA ConcludeNames ==
  ASSUME NEW F, NEW order \in Seq(F), \A f \in F : \E i \in DOMAIN order : order[i] = f,
         NEW parts, DOMAIN parts = F, NEW typed, NEW faults,
         \A f \in F : Names(parts[f], faults[f])
  PROVE  LET c == Conclude(order, parts, typed)
         IN  /\ c.status \in {"fields", "built"}
             /\ \A x : Holds(c.errors, x) <=> \E f \in F : x \in faults[f]
             /\ c.status = "built" =>
                  /\ \A f \in F : faults[f] = {}
                  /\ c.payload = Some(Whole(F, parts, typed))
<1> DEFINE c == Conclude(order, parts, typed)
           lists == [i \in DOMAIN order |-> parts[order[i]].errs]
           errs == FlattenSeq(lists)
<1>1. DOMAIN order = 1..Len(order) /\ Len(order) \in Nat /\ \A i \in DOMAIN order : order[i] \in F
  OBVIOUS
<1>2. lists \in Seq(Seq(Diagnostics)) /\ DOMAIN lists = DOMAIN order
  <2>1. \A i \in 1..Len(order) : parts[order[i]].errs \in Seq(Diagnostics)
    BY <1>1 DEF Names
  <2> QED BY <2>1, <1>1
<1>3. \A i \in DOMAIN order : \A x : Holds(lists[i], x) <=> x \in faults[order[i]]
  BY <1>1 DEF Names
<1> HIDE DEF lists
<1>4. errs \in Seq(Diagnostics) /\ \A x : Holds(errs, x)
          <=> \E i \in DOMAIN lists : Holds(lists[i], x)
  BY <1>2, FlattenFacts
<1>5. ASSUME NEW x PROVE Holds(errs, x) <=> \E f \in F : x \in faults[f]
  <2>1. Holds(errs, x) <=> \E i \in DOMAIN order : x \in faults[order[i]]
    <3>1. (\E i \in DOMAIN lists : Holds(lists[i], x))
              <=> \E i \in DOMAIN order : x \in faults[order[i]]
      BY <1>2, <1>3, Zenon
    <3> QED BY <3>1, <1>4
  <2>2. (\E i \in DOMAIN order : x \in faults[order[i]]) <=> \E f \in F : x \in faults[f]
    BY <1>1, Zenon
  <2> QED BY <2>1, <2>2
<1>6. CASE errs # <<>>
  <2>1. c = [status |-> "fields", errors |-> errs, payload |-> None]
    BY <1>6 DEF Conclude, lists
  <2> HIDE DEF c, errs
  <2>2. c.status = "fields" /\ c.errors = errs
    BY <2>1
  <2>3. c.status \in {"fields", "built"} /\ c.status # "built"
    BY <2>2
  <2>4. \A x : Holds(c.errors, x) <=> \E f \in F : x \in faults[f]
    BY <2>2, <1>5
  <2> QED BY <2>3, <2>4 DEF c
<1>7. CASE errs = <<>>
  <2>1. \A x : ~Holds(errs, x)
    BY <1>7 DEF Holds
  <2>2. \A f \in F : faults[f] = {}
    <3> HIDE DEF errs
    <3> QED BY <2>1, <1>5
  <2>3. ASSUME NEW f \in F PROVE parts[f].val # None
    <3>1. parts[f].val = <<parts[f].val[1]>>
      BY <2>2 DEF Names, Some
    <3> DEFINE v == parts[f].val[1]
    <3>2. <<v>> # <<>>
      <4> HIDE DEF v
      <4> QED OBVIOUS
    <3> QED BY <3>1, <3>2, Zenon DEF None
  <2>4. c = [status |-> "built", errors |-> <<>>,
             payload |-> Some([f \in F \cup DOMAIN typed |->
                                 IF f \in F THEN parts[f].val[1] ELSE typed[f]])]
    BY <1>7, <2>3 DEF Conclude, lists
  <2>5. c.status = "built" /\ c.errors = errs
    <3> HIDE DEF errs, c
    <3> QED BY <2>4, <1>7
  <2>6. c.payload = Some(Whole(F, parts, typed))
    <3> HIDE DEF c
    <3> QED BY <2>4 DEF Whole
  <2>7. \A x : Holds(c.errors, x) <=> \E f \in F : x \in faults[f]
    <3> HIDE DEF errs, c
    <3> QED BY <2>5, <1>5
  <2> HIDE DEF c
  <2>8. c.status \in {"fields", "built"}
    BY <2>5
  <2> QED BY <2>2, <2>5, <2>6, <2>7, <2>8 DEF c
<1> QED BY <1>6, <1>7

-----------------------------------------------------------------------------
(* What is at fault, field by field.                                       *)

Verdict(faulty, f, i) == IF faulty THEN {Diagnostic(f, i)} ELSE {}

FaultyEntries(k, d, f) == {i \in DOMAIN d[f] : FaultyValue(k, f, d[f][i])}

FieldFaults(k, d, f) ==
  IF f \in Lists THEN ListFaults(f, Len(d[f]), FaultyEntries(k, d, f))
  ELSE {Diagnostic(f, 0) : i \in FaultyEntries(k, d, f)}

LEMMA FaultsByField ==
  ASSUME NEW k, NEW d
  PROVE  Faults(k, d) = UNION {FieldFaults(k, d, f) : f \in DOMAIN d \ Flags}
<1> DEFINE at(f, i) == [field |-> f, entry |-> IF f \in Lists THEN i ELSE 0]
           overfull == {f \in DOMAIN d \cap Lists :
                          Len(d[f]) - Cardinality(FaultyEntries(k, d, f)) > ListMax}
           entries == UNION {{at(f, i) : i \in FaultyEntries(k, d, f)} : f \in DOMAIN d \ Flags}
           wholes == {[field |-> f, entry |-> 0] : f \in overfull}
<1>1. Faults(k, d) = entries \cup wholes
  BY DEF Faults, FaultyEntries
<1>2. Lists \cap Flags = {}
  BY DEF Lists, Flags
<1>3. ASSUME NEW f \in DOMAIN d \ Flags
      PROVE  FieldFaults(k, d, f) =
               {at(f, i) : i \in FaultyEntries(k, d, f)}
                 \cup (IF f \in overfull THEN {[field |-> f, entry |-> 0]} ELSE {})
  <2>1. CASE f \in Lists
    BY <2>1 DEF FieldFaults, ListFaults, Diagnostic
  <2>2. CASE f \notin Lists
    BY <2>2 DEF FieldFaults, Diagnostic
  <2> QED BY <2>1, <2>2
<1>4. overfull \subseteq DOMAIN d \ Flags
  BY <1>2
<1> HIDE DEF overfull, at
<1> DEFINE fields == DOMAIN d \ Flags
<1>5. ASSUME NEW x
      PROVE  x \in entries \cup wholes <=> \E f \in fields : x \in FieldFaults(k, d, f)
  <2>1. x \in entries <=> \E f \in fields : \E i \in FaultyEntries(k, d, f) : x = at(f, i)
    OBVIOUS
  <2>2. x \in wholes <=> \E f \in fields : f \in overfull /\ x = [field |-> f, entry |-> 0]
    BY <1>4
  <2>3. ASSUME NEW f \in fields
        PROVE  x \in FieldFaults(k, d, f)
                 <=> \/ \E i \in FaultyEntries(k, d, f) : x = at(f, i)
                     \/ f \in overfull /\ x = [field |-> f, entry |-> 0]
    BY <1>3
  <2> HIDE DEF entries, wholes, fields
  <2> QED BY <2>1, <2>2, <2>3
<1>6. UNION {FieldFaults(k, d, f) : f \in fields} = entries \cup wholes
  <2> HIDE DEF entries, wholes, fields
  <2> QED BY <1>5
<1> QED BY <1>1, <1>6

\* A field that holds one value or none.
LEMMA OptionFaults ==
  ASSUME NEW k, NEW d, NEW f, f \notin Lists
  PROVE  /\ d[f] = None => FieldFaults(k, d, f) = {}
         /\ d[f] = <<d[f][1]>> =>
              FieldFaults(k, d, f) = Verdict(FaultyValue(k, f, d[f][1]), f, 0)
<1>1. ASSUME d[f] = None PROVE FieldFaults(k, d, f) = {}
  <2>1. DOMAIN d[f] = {}
    BY <1>1 DEF None
  <2> QED BY <2>1 DEF FieldFaults, FaultyEntries
<1>2. ASSUME d[f] = <<d[f][1]>>
      PROVE  FieldFaults(k, d, f) = Verdict(FaultyValue(k, f, d[f][1]), f, 0)
  <2>1. DOMAIN d[f] = {1}
    BY <1>2
  <2>2. FaultyEntries(k, d, f) = IF FaultyValue(k, f, d[f][1]) THEN {1} ELSE {}
    BY <2>1 DEF FaultyEntries
  <2> QED BY <2>2 DEF FieldFaults, Verdict
<1> QED BY <1>1, <1>2

\* A field that holds a list.
LEMMA ListPart ==
  ASSUME NEW k, NEW d, NEW f \in Lists, NEW S, d[f] \in Seq(S),
         NEW results, DOMAIN results = DOMAIN d[f],
         \A i \in DOMAIN d[f] : Judged(results[i], Verdict(FaultyValue(k, f, d[f][i]), f, i))
  PROVE  /\ Names(Collected(f, results), FieldFaults(k, d, f))
         /\ FieldFaults(k, d, f) = {} =>
              Collected(f, results).val = <<Values(results)>>
<1> DEFINE n == Len(d[f])
           faulty == FaultyEntries(k, d, f)
<1>1. n \in Nat /\ DOMAIN d[f] = 1..n
  <2> DEFINE l == d[f]
  <2>1. l \in Seq(S)
    OBVIOUS
  <2> HIDE DEF l
  <2>2. Len(l) \in Nat /\ DOMAIN l = 1..Len(l)
    BY <2>1
  <2> QED BY <2>2 DEF l
<1>0. f \in FieldNames
  BY DEF FieldNames
<1>2. faulty \in SUBSET (1..n)
  BY <1>1 DEF FaultyEntries
<1>3. FieldFaults(k, d, f) = ListFaults(f, n, faulty)
  BY DEF FieldFaults
<1>4. DOMAIN results = 1..n
  BY <1>1
<1>5. \A i \in 1..n : Judged(results[i], IF i \in faulty THEN {Diagnostic(f, i)} ELSE {})
  BY <1>1 DEF FaultyEntries, Verdict
<1> HIDE DEF n, faulty
<1>6. /\ Names(Collected(f, results), ListFaults(f, n, faulty))
      /\ ListFaults(f, n, faulty) = {} =>
           Collected(f, results).val = <<Values(results)>>
  BY <1>0, <1>1, <1>2, <1>4, <1>5, CollectedNames
<1> QED BY <1>1, <1>3, <1>6, Zenon

-----------------------------------------------------------------------------
(* The results of the chain's rules.                                       *)

\* A sequence, of whatever values, and what all of them are.
AnySeq(s) == \E n \in Nat : s = [i \in 1..n |-> s[i]]
Within(r, S) == \A i \in DOMAIN r : r[i] \in S

LEMMA SeqIsAny == ASSUME NEW S, NEW s \in Seq(S) PROVE AnySeq(s)
<1>1. Len(s) \in Nat /\ s = [i \in 1..Len(s) |-> s[i]]
  OBVIOUS
<1> QED BY <1>1 DEF AnySeq

LEMMA AnyIsSeq ==
  ASSUME NEW s, AnySeq(s)
  PROVE  s \in Seq({s[i] : i \in DOMAIN s}) /\ DOMAIN s = 1..Len(s) /\ Len(s) \in Nat
<1>1. PICK n \in Nat : s = [i \in 1..n |-> s[i]]
  BY DEF AnySeq
<1>2. DOMAIN s = 1..n
  BY <1>1
<1> DEFINE T == {s[i] : i \in DOMAIN s}
<1>3. \A i \in 1..n : s[i] \in T
  BY <1>2
<1> HIDE DEF T
<1>4. [i \in 1..n |-> s[i]] \in Seq(T)
  BY <1>3
<1>5. s \in Seq(T)
  BY <1>1, <1>4, Zenon
<1>6. DOMAIN s = 1..Len(s) /\ Len(s) \in Nat
  BY <1>5
<1> QED BY <1>5, <1>6 DEF T

\* The results of a rule on every entry of a sequence.
LEMMA EachIsAny ==
  ASSUME NEW s, AnySeq(s), NEW r, r = [i \in DOMAIN s |-> r[i]]
  PROVE  AnySeq(r)
<1>1. DOMAIN s = 1..Len(s) /\ Len(s) \in Nat
  BY AnyIsSeq
<1> DEFINE n == Len(s)
<1> HIDE DEF n
<1>2. n \in Nat /\ r = [i \in 1..n |-> r[i]]
  BY <1>1 DEF n
<1> QED BY <1>2 DEF AnySeq

LEMMA OneAfterAnother ==
  ASSUME NEW a, AnySeq(a), NEW b, AnySeq(b)
  PROVE  /\ AnySeq(a \o b)
         /\ \A S : Within(a \o b, S) <=> Within(a, S) /\ Within(b, S)
<1> DEFINE T == {a[i] : i \in DOMAIN a} \cup {b[i] : i \in DOMAIN b}
           c == Join(a, b)
<1>1. a \in Seq(T) /\ b \in Seq(T)
  <2>1. a \in Seq({a[i] : i \in DOMAIN a}) /\ b \in Seq({b[i] : i \in DOMAIN b})
    BY AnyIsSeq
  <2> DEFINE A == {a[i] : i \in DOMAIN a}
             B == {b[i] : i \in DOMAIN b}
  <2>2. A \subseteq T /\ B \subseteq T
    OBVIOUS
  <2> HIDE DEF A, B, T
  <2>3. \A s : s \in Seq(A) \/ s \in Seq(B) => s \in Seq(T)
    BY <2>2
  <2> QED BY <2>1, <2>3 DEF A, B
<1> HIDE DEF T
<1>2. c \in Seq(T)
  BY <1>1, JoinType
<1>3. /\ Len(c) = Len(a) + Len(b) /\ Len(a) \in Nat /\ Len(b) \in Nat
      /\ \A i \in 1..Len(a) : c[i] = a[i]
      /\ \A i \in (Len(a) + 1)..(Len(a) + Len(b)) : c[i] = b[i - Len(a)]
  BY <1>1, JoinAt
<1>4. DOMAIN a = 1..Len(a) /\ DOMAIN b = 1..Len(b) /\ DOMAIN c = 1..Len(c)
  BY <1>1, <1>2
<1> HIDE DEF c
<1>5. ASSUME NEW S PROVE Within(c, S) <=> Within(a, S) /\ Within(b, S)
  <2>1. ASSUME Within(c, S), NEW i \in DOMAIN a PROVE a[i] \in S
    <3>1. i \in DOMAIN c /\ c[i] = a[i]
      BY <1>3, <1>4
    <3> QED BY <2>1, <3>1 DEF Within
  <2>2. ASSUME Within(c, S), NEW i \in DOMAIN b PROVE b[i] \in S
    <3> DEFINE j == Len(a) + i
    <3>1. j \in DOMAIN c /\ j \in (Len(a) + 1)..(Len(a) + Len(b)) /\ j - Len(a) = i
      BY <1>3, <1>4
    <3> HIDE DEF j
    <3>2. c[j] = b[i]
      BY <1>3, <3>1
    <3> QED BY <2>2, <3>1, <3>2 DEF Within
  <2>3. ASSUME Within(a, S), Within(b, S), NEW i \in DOMAIN c PROVE c[i] \in S
    <3>1. CASE i \in 1..Len(a)
      <4>1. i \in DOMAIN a /\ c[i] = a[i]
        BY <1>3, <1>4, <3>1
      <4> QED BY <2>3, <4>1 DEF Within
    <3>2. CASE i \notin 1..Len(a)
      <4> DEFINE j == i - Len(a)
      <4>1. i \in (Len(a) + 1)..(Len(a) + Len(b)) /\ j \in DOMAIN b
        BY <1>3, <1>4, <3>2
      <4>2. c[i] = b[j]
        BY <1>3, <4>1
      <4> HIDE DEF j
      <4> QED BY <2>3, <4>1, <4>2 DEF Within
    <3> QED BY <3>1, <3>2
  <2> QED BY <2>1, <2>2, <2>3 DEF Within
<1>6. AnySeq(c)
  BY <1>2, SeqIsAny
<1> QED BY <1>5, <1>6, Zenon DEF c, Join

LEMMA FirstErrorFacts ==
  ASSUME NEW r, AnySeq(r)
  PROVE  /\ FirstError(r) = Ok <=> Within(r, {Ok})
         /\ \A S : Ok \in S /\ Within(r, S) => FirstError(r) \in S
<1> DEFINE bad == {i \in DOMAIN r : r[i] # Ok}
<1>1. bad \subseteq Nat
  <2>1. DOMAIN r = 1..Len(r) /\ Len(r) \in Nat
    BY AnyIsSeq
  <2> QED BY <2>1
<1>2. bad = {} <=> Within(r, {Ok})
  BY DEF Within
<1>3. CASE bad = {}
  <2>1. FirstError(r) = Ok
    BY <1>3 DEF FirstError
  <2> QED BY <1>2, <1>3, <2>1
<1>4. CASE bad # {}
  <2>1. FirstError(r) = r[Min(bad)]
    BY <1>4 DEF FirstError
  <2>2. Min(bad) \in bad
    <3>1. \E m \in bad : \A k \in bad : m <= k
      <4> HIDE DEF bad
      <4> QED BY <1>1, <1>4, LeastNatural
    <3> HIDE DEF bad
    <3> QED BY <3>1 DEF Min
  <2>3. Min(bad) \in DOMAIN r /\ r[Min(bad)] # Ok
    BY <2>2
  <2> HIDE DEF bad
  <2>4. FirstError(r) # Ok /\ \A S : Within(r, S) => FirstError(r) \in S
    BY <2>1, <2>3 DEF Within
  <2> QED BY <1>2, <1>4, <2>4
<1> QED BY <1>3, <1>4

\* One, two and three results, and that of a rule on an option.
LEMMA TuplesAreSeqs ==
  ASSUME NEW a, NEW b, NEW c
  PROVE  /\ AnySeq(<<a>>) /\ \A S : Within(<<a>>, S) <=> a \in S
         /\ AnySeq(<<a, b>>) /\ \A S : Within(<<a, b>>, S) <=> a \in S /\ b \in S
         /\ AnySeq(<<a, b, c>>)
         /\ \A S : Within(<<a, b, c>>, S) <=> a \in S /\ b \in S /\ c \in S
<1> DEFINE T == {a, b, c}
<1>1. a \in T /\ b \in T /\ c \in T
  OBVIOUS
<1> HIDE DEF T
<1>2. <<a>> \in Seq(T) /\ <<a, b>> \in Seq(T) /\ <<a, b, c>> \in Seq(T)
  BY <1>1
<1>3. AnySeq(<<a>>) /\ AnySeq(<<a, b>>) /\ AnySeq(<<a, b, c>>)
  <2>1. AnySeq(<<a>>)
    BY <1>2, SeqIsAny
  <2>2. AnySeq(<<a, b>>)
    BY <1>2, SeqIsAny
  <2>3. AnySeq(<<a, b, c>>)
    BY <1>2, SeqIsAny
  <2> QED BY <2>1, <2>2, <2>3
<1>4. \A S : Within(<<a>>, S) <=> a \in S
  BY DEF Within
<1>5. \A S : Within(<<a, b>>, S) <=> a \in S /\ b \in S
  BY DEF Within
<1>6. \A S : Within(<<a, b, c>>, S) <=> a \in S /\ b \in S /\ c \in S
  BY DEF Within
<1> QED BY <1>3, <1>4, <1>5, <1>6

\* An option, whose value may be anything.
MaybeOne(o) == o = None \/ o = <<o[1]>>

LEMMA OptionResult ==
  ASSUME NEW o, MaybeOne(o), NEW r, r = [i \in DOMAIN o |-> r[i]]
  PROVE  FirstError(r) = IF o = None THEN Ok ELSE r[1]
<1>1. CASE o = None
  <2>1. DOMAIN r = {}
    BY <1>1 DEF None
  <2> QED BY <1>1, <2>1 DEF FirstError
<1>2. CASE o # None
  <2>1. o = <<o[1]>>
    BY <1>2 DEF MaybeOne
  <2>2. DOMAIN o = 1..1
    BY <2>1
  <2>3. r = [i \in 1..1 |-> r[i]]
    BY <2>2
  <2>4. AnySeq(r)
    BY <2>3 DEF AnySeq
  <2>5. CASE r[1] = Ok
    <3>1. Within(r, {Ok})
      BY <2>3, <2>5 DEF Within
    <3> QED BY <3>1, <2>4, <2>5, <1>2, FirstErrorFacts
  <2>6. CASE r[1] # Ok
    <3>1. Within(r, {Ok, r[1]})
      BY <2>3 DEF Within
    <3>2. ~Within(r, {Ok})
      BY <2>3, <2>6 DEF Within
    <3>3. FirstError(r) \in {Ok, r[1]} /\ FirstError(r) # Ok
      BY <3>1, <3>2, <2>4, FirstErrorFacts
    <3> QED BY <3>3, <1>2
  <2> QED BY <2>5, <2>6
<1> QED BY <1>1, <1>2

-----------------------------------------------------------------------------
(* Each kind of input, judged alone.                                       *)

LEMMA CodeJudged ==
  ASSUME NEW f \in FieldNames, NEW i \in Nat, NEW k, NEW raw
  PROVE  /\ Judged(BuildCode(f, i, k, raw), Verdict(FaultyCode(k, raw), f, i))
         /\ BuildCode(f, i, k, raw).val = None <=> FaultyCode(k, raw)
<1>1. CASE FaultyCode(k, raw)
  <2>1. BuildCode(f, i, k, raw) = Bad(f, i)
    BY <1>1 DEF FaultyCode, BuildCode
  <2>2. Bad(f, i).val = None
    BY DEF Bad
  <2> QED BY <1>1, <2>1, <2>2, BadJudged DEF Verdict
<1>2. CASE ~FaultyCode(k, raw)
  <2> DEFINE v == Parsed[k][raw][1]
  <2>1. BuildCode(f, i, k, raw) = Good(v)
    BY <1>2 DEF FaultyCode, BuildCode
  <2> HIDE DEF v
  <2>2. Good(v).val # None
    BY DEF Good, Some, None
  <2> QED BY <1>2, <2>1, <2>2, GoodJudged DEF Verdict
<1> QED BY <1>1, <1>2

LEMMA TextJudged ==
  ASSUME NEW f \in FieldNames, NEW i \in Nat, NEW raw, raw.trimmed \in Nat
  PROVE  /\ Judged(BuildText(f, i, raw), Verdict(FaultyText(raw), f, i))
         /\ BuildText(f, i, raw).val = None <=> FaultyText(raw)
<1>0. FaultyText(raw) <=> raw.trimmed \notin 1..TextMax
  BY TypesAssumption DEF FaultyText
<1>1. CASE FaultyText(raw)
  <2>1. BuildText(f, i, raw) = Bad(f, i)
    BY <1>0, <1>1 DEF BuildText
  <2>2. Bad(f, i).val = None
    BY DEF Bad
  <2> QED BY <1>1, <2>1, <2>2, BadJudged DEF Verdict
<1>2. CASE ~FaultyText(raw)
  <2> DEFINE v == raw.trimmed
  <2>1. BuildText(f, i, raw) = Good(v)
    BY <1>0, <1>2 DEF BuildText
  <2> HIDE DEF v
  <2>2. Good(v).val # None
    BY DEF Good, Some, None
  <2> QED BY <1>2, <2>1, <2>2, GoodJudged DEF Verdict
<1> QED BY <1>1, <1>2

LEMMA PartyJudged ==
  ASSUME NEW f \in FieldNames, NEW i \in Nat, NEW p
  PROVE  Judged(ParseParty(f, i, p), Verdict(FaultyParty(p), f, i))
<1> DEFINE code == BuildCode(f, i, p.kind, p.raw)
<1>1. /\ Judged(code, Verdict(FaultyParty(p), f, i))
      /\ code.val = None <=> FaultyParty(p)
  BY CodeJudged DEF FaultyParty
<1>2. CASE FaultyParty(p)
  <2>1. ParseParty(f, i, p) = code
    BY <1>1, <1>2 DEF ParseParty
  <2> QED BY <1>1, <2>1
<1>3. CASE ~FaultyParty(p)
  <2>1. ParseParty(f, i, p) = Good(PartyOf(p.kind, code.val[1]))
    BY <1>1, <1>3 DEF ParseParty
  <2> QED BY <1>3, <2>1, GoodJudged DEF Verdict
<1> QED BY <1>2, <1>3

LEMMA PerformerJudged ==
  ASSUME NEW i \in Nat, NEW p
  PROVE  /\ Judged(ParsePerformer(p, i),
                   Verdict(FaultyParty(p) \/ Len(p.instruments) > ListMax, "performers", i))
         /\ ~FaultyParty(p) /\ ~(Len(p.instruments) > ListMax) =>
              ParsePerformer(p, i).val[1].instruments = p.instruments
<1> DEFINE code == BuildCode("performers", i, p.kind, p.raw)
           long == Len(p.instruments) > ListMax
<1>0. "performers" \in FieldNames
  BY DEF FieldNames, Lists
<1>1. /\ Judged(code, Verdict(FaultyParty(p), "performers", i))
      /\ code.val = None <=> FaultyParty(p)
  BY <1>0, CodeJudged DEF FaultyParty
<1> HIDE DEF long
<1>2. CASE FaultyParty(p)
  <2>1. ParsePerformer(p, i) = code
    BY <1>1, <1>2 DEF ParsePerformer
  <2>2. Verdict(FaultyParty(p) \/ long, "performers", i) = Verdict(FaultyParty(p), "performers", i)
    BY <1>2 DEF Verdict
  <2> HIDE DEF code
  <2> QED BY <1>1, <1>2, <2>1, <2>2 DEF long
<1>3. CASE ~FaultyParty(p) /\ long
  <2>1. ParsePerformer(p, i) = Bad("performers", i)
    BY <1>1, <1>3 DEF ParsePerformer, long
  <2> QED BY <1>0, <1>3, <2>1, BadJudged DEF Verdict, long
<1>4. CASE ~FaultyParty(p) /\ ~long
  <2> DEFINE v == [kind |-> p.kind, code |-> code.val[1], instruments |-> p.instruments]
  <2>1. ParsePerformer(p, i) = Good(v)
    BY <1>1, <1>4 DEF ParsePerformer, long
  <2>2. v.instruments = p.instruments
    OBVIOUS
  <2> HIDE DEF v
  <2>3. Judged(Good(v), {}) /\ Good(v).val[1] = v
    BY GoodJudged
  <2> QED BY <1>4, <2>1, <2>2, <2>3 DEF Verdict, long
<1> QED BY <1>2, <1>3, <1>4

LEMMA ReferenceJudged ==
  ASSUME NEW f \in FieldNames, NEW i \in Nat, NEW k, NEW ref
  PROVE  /\ Judged(BuildReference(f, i, k, ref), Verdict(FaultyReference(k, ref), f, i))
         /\ BuildReference(f, i, k, ref).val = None <=> FaultyReference(k, ref)
<1>1. CASE ref.code = None
  <2>1. BuildReference(f, i, k, ref) = Good(ref) /\ ~FaultyReference(k, ref)
    BY <1>1 DEF BuildReference, FaultyReference
  <2>2. Good(ref).val # None
    BY DEF Good, Some, None
  <2> QED BY <2>1, <2>2, GoodJudged DEF Verdict
<1>2. CASE ref.code # None
  <2> DEFINE code == BuildCode(f, i, k, ref.code[1])
  <2>1. /\ Judged(code, Verdict(FaultyReference(k, ref), f, i))
        /\ code.val = None <=> FaultyReference(k, ref)
    <3>1. FaultyReference(k, ref) <=> FaultyCode(k, ref.code[1])
      BY <1>2 DEF FaultyReference
    <3>2. Verdict(FaultyReference(k, ref), f, i) = Verdict(FaultyCode(k, ref.code[1]), f, i)
      BY <3>1 DEF Verdict
    <3> QED BY <3>1, <3>2, CodeJudged
  <2>2. CASE FaultyReference(k, ref)
    <3>1. BuildReference(f, i, k, ref) = code
      BY <1>2, <2>1, <2>2 DEF BuildReference
    <3> QED BY <2>1, <3>1
  <2>3. CASE ~FaultyReference(k, ref)
    <3> DEFINE v == ByCode(code.val[1])
    <3>1. BuildReference(f, i, k, ref) = Good(v)
      BY <1>2, <2>1, <2>3 DEF BuildReference
    <3> HIDE DEF v
    <3>2. Good(v).val # None
      BY DEF Good, Some, None
    <3> QED BY <2>3, <3>1, <3>2, GoodJudged DEF Verdict
  <2> QED BY <2>2, <2>3
<1> QED BY <1>1, <1>2

LEMMA OffchainJudged ==
  ASSUME NEW v
  PROVE  Judged(BuildOffchain(<<v>>), Verdict(v \notin 1..TextMax, "offchain_extension", 0))
<1>0. "offchain_extension" \in FieldNames /\ <<v>> # None /\ <<v>>[1] = v
  BY DEF FieldNames, None
<1>1. CASE v \in 1..TextMax
  <2>1. BuildOffchain(<<v>>) = Good(<<v>>)
    BY <1>0, <1>1 DEF BuildOffchain
  <2> QED BY <2>1, <1>1, GoodJudged DEF Verdict
<1>2. CASE v \notin 1..TextMax
  <2>1. BuildOffchain(<<v>>) = Bad("offchain_extension", 0)
    BY <1>0, <1>2 DEF BuildOffchain
  <2> QED BY <2>1, <1>0, <1>2, BadJudged DEF Verdict
<1> QED BY <1>1, <1>2

\* Diagnostics one after another name the faults of both.
Says(errs, faults) == errs \in Seq(Diagnostics) /\ \A x : Holds(errs, x) <=> x \in faults

LEMMA SaysNothing == ASSUME NEW errs PROVE Says(errs, {}) <=> errs = <<>>
<1>1. ASSUME Says(errs, {}) PROVE errs = <<>>
  BY <1>1, HoldsNothing DEF Says
<1>2. ASSUME errs = <<>> PROVE Says(errs, {})
  <2>1. errs \in Seq(Diagnostics) /\ DOMAIN errs = {}
    BY <1>2
  <2> QED BY <2>1 DEF Says, Holds
<1> QED BY <1>1, <1>2

LEMMA SaysBoth ==
  ASSUME NEW a, NEW A, Says(a, A), NEW b, NEW B, Says(b, B)
  PROVE  Says(a \o b, A \cup B)
<1>1. a \in Seq(Diagnostics) /\ b \in Seq(Diagnostics)
  BY DEF Says
<1>2. a \o b \in Seq(Diagnostics)
  BY <1>1
<1>3. ASSUME NEW x PROVE Holds(a \o b, x) <=> x \in A \cup B
  <2>1. Holds(a \o b, x) <=> Holds(a, x) \/ Holds(b, x)
    BY <1>1, ConcatHolds
  <2> QED BY <2>1 DEF Says
<1> QED BY <1>2, <1>3 DEF Says

LEMMA JudgedSays ==
  ASSUME NEW r, NEW faults, Judged(r, faults)
  PROVE  Says(r.errs, faults) /\ (r.val = None <=> faults # {})
<1>1. faults = {} => r.val # None
  <2>1. <<r.val[1]>> # <<>>
    <3> DEFINE v == r.val[1]
    <3> HIDE DEF v
    <3>1. <<v>> # <<>>
      OBVIOUS
    <3> QED BY <3>1 DEF v
  <2> QED BY <2>1 DEF Judged, Names, Some, None
<1> QED BY <1>1 DEF Judged, Names, Says

LEMMA SaysJudged ==
  ASSUME NEW r, NEW faults, Says(r.errs, faults), faults = {} => r.val = <<r.val[1]>>,
         faults # {} => r.val = None
  PROVE  Judged(r, faults)
<1>1. faults = {} => r.errs = <<>>
  BY SaysNothing
<1> QED BY <1>1 DEF Judged, Names, Says, Some

LEMMA OptionalJudged ==
  ASSUME NEW f \in FieldNames, NEW i \in Nat, NEW k, NEW raw
  PROVE  Judged(BuildOptional(f, i, k, raw), Verdict(raw # None /\ FaultyCode(k, raw[1]), f, i))
<1>1. CASE raw = None
  <2>1. BuildOptional(f, i, k, raw) = Good(None)
    BY <1>1 DEF BuildOptional
  <2> QED BY <2>1, <1>1, GoodJudged DEF Verdict
<1>2. CASE raw # None
  <2> DEFINE code == BuildCode(f, i, k, raw[1])
  <2>1. /\ Judged(code, Verdict(FaultyCode(k, raw[1]), f, i))
        /\ code.val = None <=> FaultyCode(k, raw[1])
    BY CodeJudged
  <2>2. CASE FaultyCode(k, raw[1])
    <3>1. BuildOptional(f, i, k, raw) = code
      BY <1>2, <2>1, <2>2 DEF BuildOptional
    <3> QED BY <1>2, <2>1, <2>2, <3>1 DEF Verdict
  <2>3. CASE ~FaultyCode(k, raw[1])
    <3> DEFINE v == Some(code.val[1])
    <3>1. BuildOptional(f, i, k, raw) = Good(v)
      BY <1>2, <2>1, <2>3 DEF BuildOptional
    <3> HIDE DEF v
    <3> QED BY <2>3, <3>1, GoodJudged DEF Verdict
  <2> QED BY <2>2, <2>3
<1> QED BY <1>1, <1>2

LEMMA CreatorJudged ==
  ASSUME NEW i \in Nat, NEW c
  PROVE  Judged(BuildCreator(c, i), Verdict(FaultyCreator(c), "creators", i))
<1> DEFINE ipi == BuildOptional("creators", i, "ipi", c.ipi)
           isni == BuildOptional("creators", i, "isni", c.isni)
           unnamed == c.ipi = None /\ c.isni = None
           bad == Bad("creators", i).errs
           noRoles == IF c.roles = {} THEN bad ELSE <<>>
           noName == IF unnamed THEN bad ELSE <<>>
           faults == noRoles \o noName
           V(p) == Verdict(p, "creators", i)
           r == BuildCreator(c, i)
           badIpi == c.ipi # None /\ FaultyCode("ipi", c.ipi[1])
           badIsni == c.isni # None /\ FaultyCode("isni", c.isni[1])
<1>0. "creators" \in FieldNames
  BY DEF FieldNames, Lists
<1>1. /\ Judged(ipi, V(badIpi)) /\ Judged(isni, V(badIsni))
  BY <1>0, OptionalJudged
<1>2. Says(bad, {Diagnostic("creators", i)})
  BY <1>0, BadJudged, JudgedSays
<1> HIDE DEF bad, ipi, isni
<1>3. Says(noRoles, V(c.roles = {})) /\ Says(noName, V(unnamed))
  BY <1>2, SaysNothing DEF Verdict
<1> HIDE DEF noRoles, noName
<1>4. Says(faults, V(c.roles = {}) \cup V(unnamed))
  BY <1>3, SaysBoth
<1>5. /\ Says(ipi.errs, V(badIpi)) /\ (ipi.val = None <=> V(badIpi) # {})
      /\ Says(isni.errs, V(badIsni)) /\ (isni.val = None <=> V(badIsni) # {})
  BY <1>1, JudgedSays
<1>6. faults # <<>> <=> V(c.roles = {}) \cup V(unnamed) # {}
  <2> HIDE DEF faults
  <2>1. faults = <<>> => V(c.roles = {}) \cup V(unnamed) = {}
    BY <1>4 DEF Says, Holds
  <2>2. V(c.roles = {}) \cup V(unnamed) = {} => faults = <<>>
    BY <1>4, SaysNothing
  <2> QED BY <2>1, <2>2
<1>7. /\ r.errs = ipi.errs \o isni.errs \o faults
      /\ r.val = IF ipi.val = None \/ isni.val = None \/ faults # <<>> THEN None
                 ELSE <<[roles |-> c.roles, party |-> Party(ipi.val[1], isni.val[1])]>>
  BY DEF BuildCreator, ipi, isni, bad, noRoles, noName, Some
<1> DEFINE all == (V(badIpi) \cup V(badIsni)) \cup (V(c.roles = {}) \cup V(unnamed))
<1>8. Says(r.errs, all)
  <2> HIDE DEF r, faults
  <2>1. Says(ipi.errs \o isni.errs, V(badIpi) \cup V(badIsni))
    BY <1>5, SaysBoth
  <2>2. Says((ipi.errs \o isni.errs) \o faults, all)
    BY <2>1, <1>4, SaysBoth
  <2> QED BY <2>2, <1>7
<1>9. all = V(FaultyCreator(c))
  BY DEF FaultyCreator, Verdict
<1>10. all # {} <=> ipi.val = None \/ isni.val = None \/ faults # <<>>
  BY <1>5, <1>6
<1>11. (all = {} => r.val = <<r.val[1]>>) /\ (all # {} => r.val = None)
  <2> HIDE DEF r, all, faults
  <2> QED BY <1>7, <1>10
<1>12. Judged(r, all)
  <2> HIDE DEF r, all, faults
  <2> QED BY <1>8, <1>11, SaysJudged
<1> QED BY <1>9, <1>12

LEMMA RawTextsMeasured == \A t \in RawTexts \cup {SampleText} : t.trimmed \in Nat
  BY InputsAssumption DEF SampleText

LEMMA PlacesNamed ==
  ASSUME NEW p \in PlacesInputs
  PROVE  Names(BuildPlaces(<<p>>), Verdict(FaultyValue("Recording", "places", p), "places", 0))
<1> DEFINE slots == {"recording", "mixing", "mastering"}
           place(slot) == IF slot = None THEN Good(None)
                          ELSE IF BuildText("places", 0, slot[1]).val = None
                          THEN BuildText("places", 0, slot[1])
                          ELSE Good(BuildText("places", 0, slot[1]).val)
           q == [slot \in slots |-> place(p[slot])]
           bad(slot) == p[slot] # None /\ FaultyText(p[slot][1])
           V(faulty) == Verdict(faulty, "places", 0)
           errs == (q["recording"].errs \o q["mixing"].errs) \o q["mastering"].errs
           all == (V(bad("recording")) \cup V(bad("mixing"))) \cup V(bad("mastering"))
           r == BuildPlaces(<<p>>)
<1>0. "places" \in FieldNames /\ DOMAIN p = slots
  BY DEF FieldNames, PlacesInputs
<1>1. ASSUME NEW slot \in slots PROVE p[slot] \in Options(RawTexts)
  BY DEF PlacesInputs, Options
<1>2. ASSUME NEW slot \in slots PROVE Judged(place(p[slot]), V(bad(slot)))
  <2>1. CASE p[slot] = None
    BY <2>1, GoodJudged DEF Verdict
  <2>2. CASE p[slot] # None
    <3> DEFINE text == BuildText("places", 0, p[slot][1])
    <3>1. p[slot][1] \in RawTexts
      BY <2>2, <1>1 DEF Options, Some
    <3>2. p[slot][1].trimmed \in Nat
      BY <3>1, RawTextsMeasured
    <3>3. /\ Judged(text, V(FaultyText(p[slot][1])))
          /\ text.val = None <=> FaultyText(p[slot][1])
      BY <1>0, <3>2, TextJudged
    <3>4. CASE FaultyText(p[slot][1])
      <4>1. place(p[slot]) = text
        BY <2>2, <3>3, <3>4
      <4>2. V(bad(slot)) = V(FaultyText(p[slot][1]))
        BY <2>2, <3>4 DEF Verdict
      <4> HIDE DEF text, place, bad
      <4> QED BY <3>3, <4>1, <4>2
    <3>5. CASE ~FaultyText(p[slot][1])
      <4>1. place(p[slot]) = Good(text.val)
        BY <2>2, <3>3, <3>5
      <4>2. V(bad(slot)) = {}
        BY <3>5 DEF Verdict
      <4> HIDE DEF text, place, bad
      <4> QED BY GoodJudged, <4>1, <4>2
    <3> QED BY <3>4, <3>5
  <2> QED BY <2>1, <2>2
<1> HIDE DEF place
<1>3. \A slot \in slots : Judged(q[slot], V(bad(slot)))
  BY <1>2
<1>4. \A slot \in slots : Says(q[slot].errs, V(bad(slot)))
  BY <1>3, JudgedSays
<1>5. /\ "recording" \in slots /\ "mixing" \in slots /\ "mastering" \in slots
  OBVIOUS
<1> HIDE DEF q, bad
<1>6. Says(errs, all)
  <2> HIDE DEF slots
  <2>1. Says(q["recording"].errs \o q["mixing"].errs, V(bad("recording")) \cup V(bad("mixing")))
    BY <1>4, <1>5, SaysBoth
  <2> QED BY <2>1, <1>4, <1>5, SaysBoth
<1>7. all = V(FaultyValue("Recording", "places", p))
  <2>1. FaultyValue("Recording", "places", p)
            <=> \E slot \in DOMAIN p : p[slot] # None /\ FaultyText(p[slot][1])
    BY DEF FaultyValue, IdKinds
  <2>2. (\E slot \in DOMAIN p : p[slot] # None /\ FaultyText(p[slot][1]))
          <=> bad("recording") \/ bad("mixing") \/ bad("mastering")
    BY <1>0 DEF bad
  <2> QED BY <2>1, <2>2 DEF Verdict
<1>8. BuildPlaces(<<p>>) = IF errs # <<>> THEN [errs |-> errs, val |-> None]
                           ELSE Good(Some([slot \in DOMAIN q |-> q[slot].val[1]]))
  <2>1. <<p>> # None /\ <<p>>[1] = p
    BY DEF None
  <2> QED BY <2>1 DEF BuildPlaces, q, place
<1> HIDE DEF errs, all, r
<1>9. CASE errs = <<>>
  <2>1. all = {}
    BY <1>6, <1>9 DEF Says, Holds
  <2> DEFINE v == Some([slot \in DOMAIN q |-> q[slot].val[1]])
  <2>2. BuildPlaces(<<p>>) = Good(v)
    BY <1>8, <1>9
  <2> HIDE DEF v
  <2> QED BY <2>1, <2>2, <1>7, GoodJudged DEF Judged
<1>10. CASE errs # <<>>
  <2>1. BuildPlaces(<<p>>) = [errs |-> errs, val |-> None]
    BY <1>8, <1>10
  <2>2. Judged(BuildPlaces(<<p>>), all)
    <3>1. all # {}
      BY <1>6, <1>10, SaysNothing
    <3>2. BuildPlaces(<<p>>).errs = errs /\ BuildPlaces(<<p>>).val = None
      BY <2>1
    <3> QED BY <3>1, <3>2, <1>6, SaysJudged
  <2> QED BY <2>2, <1>7 DEF Judged
<1> QED BY <1>9, <1>10

LEMMA ProducerJudged ==
  ASSUME NEW i \in Nat, NEW p, p.catalog.trimmed \in Nat
  PROVE  Judged(BuildProducer(p, i),
                Verdict(FaultyCode("isni", p.isni) \/ FaultyText(p.catalog), "producers", i))
<1> DEFINE isni == BuildCode("producers", i, "isni", p.isni)
           catalog == BuildText("producers", i, p.catalog)
           v == [isni |-> isni.val[1], catalog_number |-> catalog.val[1]]
           V(faulty) == Verdict(faulty, "producers", i)
           all == V(FaultyCode("isni", p.isni)) \cup V(FaultyText(p.catalog))
           r == BuildProducer(p, i)
<1>0. "producers" \in FieldNames
  BY DEF FieldNames, Lists
<1>1. /\ Judged(isni, V(FaultyCode("isni", p.isni)))
      /\ Judged(catalog, V(FaultyText(p.catalog)))
  BY <1>0, CodeJudged, TextJudged
<1> HIDE DEF isni, catalog, v
<1>2. /\ Says(isni.errs, V(FaultyCode("isni", p.isni)))
      /\ isni.val = None <=> V(FaultyCode("isni", p.isni)) # {}
      /\ Says(catalog.errs, V(FaultyText(p.catalog)))
      /\ catalog.val = None <=> V(FaultyText(p.catalog)) # {}
  BY <1>1, JudgedSays
<1>3. /\ r.errs = isni.errs \o catalog.errs
      /\ isni.val = None \/ catalog.val = None => r.val = None
      /\ isni.val # None /\ catalog.val # None => r.val = <<v>>
  BY DEF BuildProducer, Both, Some, isni, catalog, v
<1>4. Says(r.errs, all)
  <2> HIDE DEF r
  <2>1. Says(isni.errs \o catalog.errs, all)
    BY <1>2, SaysBoth
  <2> QED BY <2>1, <1>3
<1>5. all = V(FaultyCode("isni", p.isni) \/ FaultyText(p.catalog))
  BY DEF Verdict
<1>6. all # {} <=> isni.val = None \/ catalog.val = None
  BY <1>2
<1>7. (all = {} => r.val = <<r.val[1]>>) /\ (all # {} => r.val = None)
  <2> HIDE DEF r, all
  <2> QED BY <1>3, <1>6
<1>8. Judged(r, all)
  <2> HIDE DEF r, all
  <2> QED BY <1>4, <1>7, SaysJudged
<1> QED BY <1>5, <1>8

\* A track that came through keeps its number; without one and without faults
\* it has its place.
LEMMA TracksJudged ==
  ASSUME NEW S, NEW raws \in Seq(S)
  PROVE  \E results :
           /\ BuildTracks(raws) = Collected("tracks", results)
           /\ DOMAIN results = DOMAIN raws
           /\ \A i \in DOMAIN raws :
                Judged(results[i], Verdict(FaultyReference("isrc", raws[i].recording), "tracks", i))
           /\ (\A i \in DOMAIN raws : ~FaultyReference("isrc", raws[i].recording)) =>
                \A i \in DOMAIN raws :
                  /\ results[i].val[1].number
                       = IF raws[i].number = None THEN i ELSE raws[i].number[1]
                  /\ results[i].val[1].recording
                       = BuildReference("tracks", i, "isrc", raws[i].recording).val[1]
<1> DEFINE ref(i) == BuildReference("tracks", i, "isrc", raws[i].recording)
           place(i) == Cardinality({j \in 1..i : ref(j).val # None})
           entryOf(i) == [number |-> IF raws[i].number = None THEN place(i) ELSE raws[i].number[1],
                          recording |-> ref(i).val[1]]
           results == [i \in DOMAIN raws |->
                         IF ref(i).val = None THEN ref(i) ELSE Good(entryOf(i))]
           faulty(i) == FaultyReference("isrc", raws[i].recording)
<1>0. "tracks" \in FieldNames
  BY DEF FieldNames, Lists
<1>1. BuildTracks(raws) = Collected("tracks", results)
  BY DEF BuildTracks, BuildList
<1>2. ASSUME NEW i \in Nat
      PROVE  /\ Judged(ref(i), Verdict(faulty(i), "tracks", i))
             /\ ref(i).val = None <=> faulty(i)
  BY <1>0, ReferenceJudged
<1>3. DOMAIN raws \subseteq Nat /\ \A i \in DOMAIN raws : i \in 1..Len(raws)
  OBVIOUS
<1> HIDE DEF ref, entryOf, faulty
<1>4. ASSUME NEW i \in DOMAIN raws
      PROVE  Judged(results[i], Verdict(faulty(i), "tracks", i))
  <2>1. CASE faulty(i)
    <3>1. results[i] = ref(i)
      BY <1>2, <1>3, <2>1
    <3> HIDE DEF results
    <3> QED BY <1>2, <1>3, <3>1
  <2>2. CASE ~faulty(i)
    <3>1. results[i] = Good(entryOf(i))
      BY <1>2, <1>3, <2>2
    <3> HIDE DEF results
    <3> QED BY <2>2, <3>1, GoodJudged DEF Verdict
  <2> QED BY <2>1, <2>2
<1>5. ASSUME \A i \in DOMAIN raws : ~faulty(i), NEW i \in DOMAIN raws
      PROVE  /\ results[i].val[1].number
                  = IF raws[i].number = None THEN i ELSE raws[i].number[1]
             /\ results[i].val[1].recording = ref(i).val[1]
  <2>1. results[i] = Good(entryOf(i))
    BY <1>2, <1>3, <1>5
  <2>2. results[i].val[1] = entryOf(i)
    <3> HIDE DEF results
    <3> QED BY <2>1, GoodJudged
  <2>3. place(i) = i
    <3>1. {j \in 1..i : ref(j).val # None} = 1..i
      <4>1. ASSUME NEW j \in 1..i PROVE ref(j).val # None
        <5>1. j \in Nat /\ j \in DOMAIN raws
          BY <1>3
        <5> QED BY <5>1, <1>2, <1>5
      <4> QED BY <4>1
    <3>2. i \in Nat
      BY <1>3
    <3>3. Cardinality(1..i) = i
      BY <3>2, FS_Interval
    <3> QED BY <3>1, <3>3
  <2>4. /\ entryOf(i).number = IF raws[i].number = None THEN place(i) ELSE raws[i].number[1]
        /\ entryOf(i).recording = ref(i).val[1]
    BY DEF entryOf
  <2> HIDE DEF place, results
  <2> QED BY <2>2, <2>3, <2>4
<1>6. DOMAIN results = DOMAIN raws
  OBVIOUS
<1> HIDE DEF results
<1> QED BY <1>1, <1>4, <1>5, <1>6 DEF faulty, ref

-----------------------------------------------------------------------------
(* Drafts.                                                                 *)

SampleCreator == [roles |-> {"Composer"}, ipi |-> Some(SampleCode["ipi"]), isni |-> None]

\* What performer_instruments makes of a performer.
InstrumentLists == {<<"Vocals">>, [i \in 1..(ListMax + 1) |-> "Vocals"]}
Performers ==
  PerformerInputs \cup {[p EXCEPT !.instruments = l] : p \in PerformerInputs, l \in InstrumentLists}

\* The inputs a field takes.
FieldInputs(k, f) ==
  CASE f \in IdKinds -> RawCodes[f]
    [] f \in {"title", "title_aliases", "distributor_name", "cover_contributors"} ->
         RawTexts \cup {SampleText}
    [] f \in {"artist", "featuring", "contributors"} -> PartyInputs
    [] f \in {"work", "samples"} -> References("iswc")
    [] f = "tracks" ->
         TrackInputs \cup {[number |-> None, recording |-> ByCode(SampleCode["isrc"])]}
    [] f = "creators" -> CreatorInputs \cup {SampleCreator}
    [] f = "performers" -> Performers
    [] f = "producers" -> IF k = "Recording" THEN RawCodes["isni"] ELSE ProducerInputs
    [] f = "places" -> PlacesInputs
    [] f = "offchain_extension" -> HashSizes
    [] f \in {"creation_year", "record_year"} -> Years
    [] f = "bpm" -> Bpms
    [] f = "work_type" -> WorkTypes
    [] f \in {"genre", "sub_genre"} -> Genres
    [] f = "editorial" -> {TRUE}
    [] f = "release_date" -> Dates \cup {[month |-> 1, day |-> 1]}

FieldValues(k, f) ==
  IF f \in Flags THEN BOOLEAN
  ELSE IF f \in Lists THEN Seq(FieldInputs(k, f)) ELSE Options(FieldInputs(k, f))

Fields(k) ==
  CASE k = "MusicalWork" ->
         {"iswc", "title", "creation_year", "instrumental", "explicit_lyrics", "bpm", "work_type",
          "samples", "creators", "offchain_extension"}
    [] k = "Recording" ->
         {"isrc", "title", "title_aliases", "artist", "featuring", "work", "genre", "sub_genre",
          "record_year", "performers", "producers", "bpm", "places", "contributors",
          "offchain_extension"}
    [] k = "Release" ->
         {"upc", "title", "title_aliases", "artist", "featuring", "tracks", "producers",
          "editorial", "release_date", "distributor_name", "cover_contributors",
          "offchain_extension"}

\* A draft holds for every field of its kind what its setter takes.
IsDraft(k, d) ==
  /\ DOMAIN d = Fields(k)
  /\ \A f \in Fields(k) : d[f] \in FieldValues(k, f)

LEMMA EmptySequence == ASSUME NEW S PROVE <<>> \in Seq(S)
  OBVIOUS

LEMMA DraftsBegin ==
  ASSUME NEW k \in MiddsKinds
  PROVE  DOMAIN Empty(k) = Fields(k) /\ IsDraft(k, Empty(k))
<1>1. ASSUME NEW f \in Fields(k)
      PROVE  (f \in Flags => Empty(k)[f] \in BOOLEAN) /\ (f \notin Flags => Empty(k)[f] = None)
  <2>1. CASE k = "MusicalWork"
    <3>1. Empty(k) = WorkDraft /\ f \in Fields("MusicalWork")
      BY <2>1 DEF Empty
    <3>2. f \in Flags => WorkDraft[f] \in BOOLEAN
      <4>1. WorkDraft["instrumental"] \in BOOLEAN
        BY DEF WorkDraft
      <4>2. WorkDraft["explicit_lyrics"] \in BOOLEAN
        BY DEF WorkDraft
      <4> QED BY <4>1, <4>2 DEF Flags
    <3>3. f \notin Flags => WorkDraft[f] = None
      BY <3>1 DEF WorkDraft, Fields, Flags, None
    <3> QED BY <3>1, <3>2, <3>3
  <2>2. CASE k = "Recording"
    <3>1. Empty(k) = RecordingDraft /\ f \in Fields("Recording")
      BY <2>2 DEF Empty
    <3>2. f \in Flags => RecordingDraft[f] \in BOOLEAN
      BY <3>1 DEF RecordingDraft, Fields, Flags
    <3>3. f \notin Flags => RecordingDraft[f] = None
      BY <3>1 DEF RecordingDraft, Fields, Flags, None
    <3> QED BY <3>1, <3>2, <3>3
  <2>3. CASE k = "Release"
    <3>1. Empty(k) = ReleaseDraft /\ f \in Fields("Release")
      BY <2>3 DEF Empty
    <3>2. f \in Flags => ReleaseDraft[f] \in BOOLEAN
      BY <3>1 DEF ReleaseDraft, Fields, Flags
    <3>3. f \notin Flags => ReleaseDraft[f] = None
      BY <3>1 DEF ReleaseDraft, Fields, Flags, None
    <3> QED BY <3>1, <3>2, <3>3
  <2> QED BY <2>1, <2>2, <2>3 DEF MiddsKinds
<1>2. DOMAIN Empty(k) = Fields(k)
  <2>1. CASE k = "MusicalWork"
    <3>1. Empty(k) = WorkDraft
      BY <2>1 DEF Empty
    <3>2. DOMAIN WorkDraft = Fields("MusicalWork")
      BY DEF WorkDraft, Fields
    <3> QED BY <2>1, <3>1, <3>2
  <2>2. CASE k = "Recording"
    <3>1. Empty(k) = RecordingDraft
      BY <2>2 DEF Empty
    <3>2. DOMAIN RecordingDraft = Fields("Recording")
      BY DEF RecordingDraft, Fields
    <3> QED BY <2>2, <3>1, <3>2
  <2>3. CASE k = "Release"
    <3>1. Empty(k) = ReleaseDraft
      BY <2>3 DEF Empty
    <3>2. DOMAIN ReleaseDraft = Fields("Release")
      BY DEF ReleaseDraft, Fields
    <3> QED BY <2>3, <3>1, <3>2
  <2> QED BY <2>1, <2>2, <2>3 DEF MiddsKinds
<1>3. ASSUME NEW f \in Fields(k) PROVE Empty(k)[f] \in FieldValues(k, f)
  <2>1. CASE f \in Flags
    BY <2>1, <1>1 DEF FieldValues
  <2>2. CASE f \notin Flags
    <3>1. Empty(k)[f] = <<>>
      BY <2>2, <1>1 DEF None
    <3>2. <<>> \in Seq(FieldInputs(k, f)) /\ <<>> \in Options(FieldInputs(k, f))
      <4>1. <<>> \in Options(FieldInputs(k, f))
        BY DEF Options, None
      <4> QED BY <4>1, EmptySequence
    <3> QED BY <2>2, <3>1, <3>2 DEF FieldValues
  <2> QED BY <2>1, <2>2
<1> QED BY <1>2, <1>3 DEF IsDraft

\* The sample record, all of whose inputs are inputs a caller passes.
LEMMA SamplesAreInputs ==
  /\ SampleText \in FieldInputs("MusicalWork", "title")
  /\ \A k \in IdKinds : SampleCode[k] \in RawCodes[k]
  /\ SampleParty \in PartyInputs
  /\ ByCode(SampleCode["iswc"]) \in References("iswc")
<1>1. \A k \in IdKinds : SampleCode[k] \in RawCodes[k]
  BY InputsAssumption
<1>2. SampleParty \in PartyInputs
  BY <1>1 DEF SampleParty, PartyInputs, IdKinds
<1>3. ByCode(SampleCode["iswc"]) \in References("iswc")
  BY <1>1 DEF References, IdKinds
<1>4. SampleText \in FieldInputs("MusicalWork", "title")
  BY DEF FieldInputs, IdKinds
<1> QED BY <1>1, <1>2, <1>3, <1>4

\* One value for a field that takes one, and one entry for a list.
LEMMA OneValue ==
  ASSUME NEW k, NEW f, f \notin Flags, NEW v \in FieldInputs(k, f)
  PROVE  <<v>> \in FieldValues(k, f)
<1>1. <<v>> \in Options(FieldInputs(k, f))
  BY DEF Options, Some
<1>2. <<v>> \in Seq(FieldInputs(k, f))
  <2> DEFINE S == FieldInputs(k, f)
  <2>1. v \in S
    OBVIOUS
  <2> HIDE DEF S
  <2> QED BY <2>1
<1> QED BY <1>1, <1>2 DEF FieldValues

LEMMA FilledIsDraft ==
  ASSUME NEW k \in MiddsKinds, NEW f \in Fields(k)
  PROVE  Filled(k)[f] \in FieldValues(k, f)
<1>0. Empty(k)[f] \in FieldValues(k, f)
  BY DraftsBegin DEF IsDraft
<1>1. CASE k = "MusicalWork"
  <2>1. /\ Filled(k) = WorkFilled /\ Empty(k) = WorkDraft /\ DOMAIN WorkDraft = Fields(k)
        /\ f \in Fields("MusicalWork")
    BY <1>1, DraftsBegin DEF Filled, Empty
  <2>2. CASE f = "iswc"
    <3>1. WorkFilled[f] = <<SampleCode["iswc"]>>
      BY <2>1, <2>2 DEF WorkFilled, Some
    <3>2. SampleCode["iswc"] \in FieldInputs(k, f) /\ f \notin Flags
      BY <2>2, SamplesAreInputs DEF FieldInputs, IdKinds, Flags
    <3> QED BY <2>1, <3>1, <3>2, OneValue
  <2>3. CASE f = "title"
    <3>1. WorkFilled[f] = <<SampleText>>
      BY <2>1, <2>3 DEF WorkFilled, Some
    <3>2. SampleText \in FieldInputs(k, f) /\ f \notin Flags
      BY <2>3 DEF FieldInputs, IdKinds, Flags
    <3> QED BY <2>1, <3>1, <3>2, OneValue
  <2>4. CASE f = "creators"
    <3>1. WorkFilled[f] = <<SampleCreator>>
      BY <2>1, <2>4 DEF WorkFilled, SampleCreator
    <3>2. SampleCreator \in FieldInputs(k, f) /\ f \notin Flags
      BY <2>4 DEF FieldInputs, IdKinds, Flags
    <3> QED BY <2>1, <3>1, <3>2, OneValue
  <2>5. CASE f \notin {"iswc", "title", "creators"}
    <3>1. WorkFilled[f] = WorkDraft[f]
      BY <2>1, <2>5 DEF WorkFilled
    <3> QED BY <2>1, <3>1, <1>0
  <2> QED BY <2>2, <2>3, <2>4, <2>5
<1>2. CASE k = "Recording"
  <2>1. /\ Filled(k) = RecordingFilled /\ Empty(k) = RecordingDraft
        /\ DOMAIN RecordingDraft = Fields(k) /\ f \in Fields("Recording")
    BY <1>2, DraftsBegin DEF Filled, Empty
  <2>2. CASE f = "isrc"
    <3>1. RecordingFilled[f] = <<SampleCode["isrc"]>>
      BY <2>1, <2>2 DEF RecordingFilled, Some
    <3>2. SampleCode["isrc"] \in FieldInputs(k, f) /\ f \notin Flags
      BY <2>2, SamplesAreInputs DEF FieldInputs, IdKinds, Flags
    <3> QED BY <2>1, <3>1, <3>2, OneValue
  <2>3. CASE f = "title"
    <3>1. RecordingFilled[f] = <<SampleText>>
      BY <2>1, <2>3 DEF RecordingFilled, Some
    <3>2. SampleText \in FieldInputs(k, f) /\ f \notin Flags
      BY <2>3 DEF FieldInputs, IdKinds, Flags
    <3> QED BY <2>1, <3>1, <3>2, OneValue
  <2>4. CASE f = "artist"
    <3>1. RecordingFilled[f] = <<SampleParty>>
      BY <2>1, <2>4 DEF RecordingFilled, Some
    <3>2. SampleParty \in FieldInputs(k, f) /\ f \notin Flags
      BY <2>4, SamplesAreInputs DEF FieldInputs, IdKinds, Flags
    <3> QED BY <2>1, <3>1, <3>2, OneValue
  <2>5. CASE f = "work"
    <3>1. RecordingFilled[f] = <<ByCode(SampleCode["iswc"])>>
      BY <2>1, <2>5 DEF RecordingFilled, Some
    <3>2. ByCode(SampleCode["iswc"]) \in FieldInputs(k, f) /\ f \notin Flags
      BY <2>5, SamplesAreInputs DEF FieldInputs, IdKinds, Flags
    <3> QED BY <2>1, <3>1, <3>2, OneValue
  <2>6. CASE f \notin {"isrc", "title", "artist", "work"}
    <3>1. RecordingFilled[f] = RecordingDraft[f]
      BY <2>1, <2>6 DEF RecordingFilled
    <3> QED BY <2>1, <3>1, <1>0
  <2> QED BY <2>2, <2>3, <2>4, <2>5, <2>6
<1>3. CASE k = "Release"
  <2> DEFINE track == [number |-> None, recording |-> ByCode(SampleCode["isrc"])]
             date == [month |-> 1, day |-> 1]
  <2>1. /\ Filled(k) = ReleaseFilled /\ Empty(k) = ReleaseDraft /\ DOMAIN ReleaseDraft = Fields(k)
        /\ f \in Fields("Release")
    BY <1>3, DraftsBegin DEF Filled, Empty
  <2>2. CASE f = "upc"
    <3>1. ReleaseFilled[f] = <<SampleCode["upc"]>>
      BY <2>1, <2>2 DEF ReleaseFilled, Some
    <3>2. SampleCode["upc"] \in FieldInputs(k, f) /\ f \notin Flags
      BY <2>2, SamplesAreInputs DEF FieldInputs, IdKinds, Flags
    <3> QED BY <2>1, <3>1, <3>2, OneValue
  <2>3. CASE f \in {"title", "distributor_name"}
    <3>1. ReleaseFilled[f] = <<SampleText>>
      BY <2>1, <2>3 DEF ReleaseFilled, Some
    <3>2. SampleText \in FieldInputs(k, f) /\ f \notin Flags
      BY <2>3 DEF FieldInputs, IdKinds, Flags
    <3> QED BY <2>1, <3>1, <3>2, OneValue
  <2>4. CASE f = "artist"
    <3>1. ReleaseFilled[f] = <<SampleParty>>
      BY <2>1, <2>4 DEF ReleaseFilled, Some
    <3>2. SampleParty \in FieldInputs(k, f) /\ f \notin Flags
      BY <2>4, SamplesAreInputs DEF FieldInputs, IdKinds, Flags
    <3> QED BY <2>1, <3>1, <3>2, OneValue
  <2>5. CASE f = "editorial"
    <3>1. ReleaseFilled[f] = <<TRUE>>
      BY <2>1, <2>5 DEF ReleaseFilled, Some
    <3>2. TRUE \in FieldInputs(k, f) /\ f \notin Flags
      BY <2>5 DEF FieldInputs, IdKinds, Flags
    <3> QED BY <2>1, <3>1, <3>2, OneValue
  <2>6. CASE f = "release_date"
    <3>1. ReleaseFilled[f] = <<date>>
      BY <2>1, <2>6 DEF ReleaseFilled, Some
    <3>2. date \in FieldInputs(k, f) /\ f \notin Flags
      BY <2>6 DEF FieldInputs, IdKinds, Flags
    <3> QED BY <2>1, <3>1, <3>2, OneValue
  <2>7. CASE f = "tracks"
    <3>1. ReleaseFilled[f] = <<track>>
      BY <2>1, <2>7 DEF ReleaseFilled
    <3>2. track \in FieldInputs(k, f) /\ f \notin Flags
      BY <2>7 DEF FieldInputs, IdKinds, Flags
    <3> QED BY <2>1, <3>1, <3>2, OneValue
  <2>8. CASE f \notin {"upc", "title", "distributor_name", "artist", "editorial", "release_date",
                       "tracks"}
    <3>1. ReleaseFilled[f] = ReleaseDraft[f]
      BY <2>1, <2>8 DEF ReleaseFilled
    <3> QED BY <2>1, <3>1, <1>0
  <2> QED BY <2>2, <2>3, <2>4, <2>5, <2>6, <2>7, <2>8
<1> QED BY <1>1, <1>2, <1>3 DEF MiddsKinds

LEMMA UpdateKeepsDraft ==
  ASSUME NEW k, NEW d, IsDraft(k, d), NEW f \in Fields(k), NEW v \in FieldValues(k, f)
  PROVE  IsDraft(k, [d EXCEPT ![f] = v])
<1> DEFINE e == [d EXCEPT ![f] = v]
<1>1. DOMAIN e = Fields(k)
  BY DEF IsDraft
<1>2. ASSUME NEW g \in Fields(k) PROVE e[g] \in FieldValues(k, g)
  BY DEF IsDraft
<1> QED BY <1>1, <1>2 DEF IsDraft

LEMMA SetKeepsDraft ==
  ASSUME NEW k, NEW d, IsDraft(k, d), NEW f \in Fields(k), f \notin Lists, f \notin Flags,
         NEW inputs, inputs \subseteq FieldInputs(k, f), NEW e \in Set(d, f, inputs)
  PROVE  IsDraft(k, e)
<1>1. PICK v \in inputs : e = [d EXCEPT ![f] = <<v>>]
  BY DEF Set, Some
<1>2. <<v>> \in FieldValues(k, f)
  BY OneValue
<1> QED BY <1>1, <1>2, UpdateKeepsDraft

LEMMA PushKeepsDraft ==
  ASSUME NEW k, NEW d, IsDraft(k, d), NEW f \in Fields(k), f \in Lists, f \notin Flags,
         NEW inputs, inputs \subseteq FieldInputs(k, f), NEW e \in Push(d, f, inputs)
  PROVE  IsDraft(k, e)
<1>1. PICK v \in inputs : e = [d EXCEPT ![f] = Append(d[f], v)]
  BY DEF Push, IsDraft
<1>2. d[f] \in Seq(FieldInputs(k, f))
  BY DEF IsDraft, FieldValues
<1>3. Append(d[f], v) \in Seq(FieldInputs(k, f))
  <2> DEFINE l == d[f]
             S == FieldInputs(k, f)
  <2>1. l \in Seq(S) /\ v \in S
    BY <1>2
  <2> HIDE DEF l, S
  <2>2. Append(l, v) \in Seq(S)
    BY <2>1
  <2> QED BY <2>2 DEF l, S
<1>4. Append(d[f], v) \in FieldValues(k, f)
  BY <1>3 DEF FieldValues
<1> QED BY <1>1, <1>4, UpdateKeepsDraft

\* The instruments of the last performer are replaced.
LEMMA InstrumentsKeepDraft ==
  ASSUME NEW d, IsDraft("Recording", d), NEW e \in PerformerInstruments(d)
  PROVE  IsDraft("Recording", e)
<1> DEFINE l == d["performers"]
           n == Len(l)
<1>0. FieldValues("Recording", "performers") = Seq(Performers)
  BY DEF FieldValues, FieldInputs, Flags, Lists, IdKinds
<1>1. "performers" \in Fields("Recording")
  BY DEF Fields
<1>2. l \in Seq(Performers)
  BY <1>0, <1>1 DEF IsDraft
<1>3. CASE l = <<>>
  <2>1. e = d
    BY <1>3 DEF PerformerInstruments
  <2> QED BY <2>1
<1>4. CASE l # <<>>
  <2>1. PICK list \in InstrumentLists :
          e = [d EXCEPT !.performers[Len(d.performers)].instruments = list]
    BY <1>4 DEF PerformerInstruments, InstrumentLists
  <2> DEFINE new == [l EXCEPT ![n] = [l[n] EXCEPT !.instruments = list]]
  <2>2. e = [d EXCEPT !["performers"] = new]
    BY <2>1, <1>1 DEF IsDraft
  <2>3. ASSUME NEW p \in Performers PROVE [p EXCEPT !.instruments = list] \in Performers
    <3>1. CASE p \in PerformerInputs
      BY <3>1 DEF Performers
    <3>2. CASE p \notin PerformerInputs
      <4>1. PICK q \in PerformerInputs, other \in InstrumentLists :
                p = [q EXCEPT !.instruments = other]
        BY <3>2 DEF Performers
      <4>2. [p EXCEPT !.instruments = list] = [q EXCEPT !.instruments = list]
        BY <4>1
      <4> QED BY <4>2 DEF Performers
    <3> QED BY <3>1, <3>2
  <2>4. new \in Seq(Performers)
    <3> HIDE DEF l
    <3>1. n \in Nat /\ l = [i \in 1..n |-> l[i]] /\ \A i \in 1..n : l[i] \in Performers
      BY <1>2
    <3>2. n \in 1..n
      BY <1>2, <1>4
    <3>3. DOMAIN new = 1..n /\ \A i \in 1..n : new[i] \in Performers
      BY <3>1, <3>2, <2>3
    <3>4. new = [i \in 1..n |-> new[i]]
      BY <3>3
    <3> HIDE DEF new, n
    <3> QED BY <3>1, <3>3, <3>4
  <2> HIDE DEF new
  <2> QED BY <2>2, <2>4, <1>0, <1>1, UpdateKeepsDraft
<1> QED BY <1>3, <1>4

LEMMA CallsKeepDraft ==
  ASSUME NEW k \in MiddsKinds, NEW d, IsDraft(k, d), NEW f \in Fields(k), NEW e \in Calls(k, d, f)
  PROVE  IsDraft(k, e)
<1>1. CASE k = "MusicalWork"
  <2>0. e \in WorkCalls(d, f) /\ f \in Fields("MusicalWork") /\ IsDraft("MusicalWork", d)
    BY <1>1 DEF Calls
  <2>1. CASE f = "iswc"
    <3>1. e \in Set(d, f, RawCodes["iswc"])
      BY <2>0, <2>1 DEF WorkCalls
    <3>2. RawCodes["iswc"] \subseteq FieldInputs(k, f) /\ f \notin Lists /\ f \notin Flags
      BY <1>1, <2>1 DEF FieldInputs, IdKinds, Flags, Lists
    <3> QED BY <3>1, <3>2, SetKeepsDraft
  <2>2. CASE f = "title"
    <3>1. e \in Set(d, f, RawTexts)
      BY <2>0, <2>2 DEF WorkCalls
    <3>2. RawTexts \subseteq FieldInputs(k, f) /\ f \notin Lists /\ f \notin Flags
      BY <1>1, <2>2 DEF FieldInputs, IdKinds, Flags, Lists
    <3> QED BY <3>1, <3>2, SetKeepsDraft
  <2>3. CASE f = "creation_year"
    <3>1. e \in Set(d, f, Years)
      BY <2>0, <2>3 DEF WorkCalls
    <3>2. Years \subseteq FieldInputs(k, f) /\ f \notin Lists /\ f \notin Flags
      BY <1>1, <2>3 DEF FieldInputs, IdKinds, Flags, Lists
    <3> QED BY <3>1, <3>2, SetKeepsDraft
  <2>4. CASE f = "bpm"
    <3>1. e \in Set(d, f, Bpms)
      BY <2>0, <2>4 DEF WorkCalls
    <3>2. Bpms \subseteq FieldInputs(k, f) /\ f \notin Lists /\ f \notin Flags
      BY <1>1, <2>4 DEF FieldInputs, IdKinds, Flags, Lists
    <3> QED BY <3>1, <3>2, SetKeepsDraft
  <2>5. CASE f \in {"instrumental", "explicit_lyrics"}
    <3>1. PICK v \in BOOLEAN : e = [d EXCEPT ![f] = v]
      BY <2>0, <2>5 DEF WorkCalls
    <3>2. FieldValues(k, f) = BOOLEAN
      BY <2>5 DEF FieldValues, FieldInputs, IdKinds, Flags, Lists
    <3> QED BY <3>1, <3>2, UpdateKeepsDraft
  <2>6. CASE f = "work_type"
    <3>1. e \in Set(d, f, WorkTypes)
      BY <2>0, <2>6 DEF WorkCalls
    <3>2. WorkTypes \subseteq FieldInputs(k, f) /\ f \notin Lists /\ f \notin Flags
      BY <1>1, <2>6 DEF FieldInputs, IdKinds, Flags, Lists
    <3> QED BY <3>1, <3>2, SetKeepsDraft
  <2>7. CASE f = "samples"
    <3>1. e \in Push(d, f, References("iswc"))
      BY <2>0, <2>7 DEF WorkCalls
    <3>2. References("iswc") \subseteq FieldInputs(k, f) /\ f \in Lists /\ f \notin Flags
      BY <1>1, <2>7 DEF FieldInputs, IdKinds, Flags, Lists
    <3> QED BY <3>1, <3>2, PushKeepsDraft
  <2>8. CASE f = "creators"
    <3>1. e \in Push(d, f, CreatorInputs)
      BY <2>0, <2>8 DEF WorkCalls
    <3>2. CreatorInputs \subseteq FieldInputs(k, f) /\ f \in Lists /\ f \notin Flags
      BY <1>1, <2>8 DEF FieldInputs, IdKinds, Flags, Lists
    <3> QED BY <3>1, <3>2, PushKeepsDraft
  <2>9. CASE f = "offchain_extension"
    <3>1. e \in Set(d, f, HashSizes)
      BY <2>0, <2>9 DEF WorkCalls
    <3>2. HashSizes \subseteq FieldInputs(k, f) /\ f \notin Lists /\ f \notin Flags
      BY <1>1, <2>9 DEF FieldInputs, IdKinds, Flags, Lists
    <3> QED BY <3>1, <3>2, SetKeepsDraft
  <2> QED BY <2>0, <2>1, <2>2, <2>3, <2>4, <2>5, <2>6, <2>7, <2>8, <2>9 DEF Fields
<1>2. CASE k = "Recording"
  <2>0. e \in RecordingCalls(d, f) /\ f \in Fields("Recording") /\ IsDraft("Recording", d)
    BY <1>2 DEF Calls
  <2>1. CASE f = "isrc"
    <3>1. e \in Set(d, f, RawCodes["isrc"])
      BY <2>0, <2>1 DEF RecordingCalls
    <3>2. RawCodes["isrc"] \subseteq FieldInputs(k, f) /\ f \notin Lists /\ f \notin Flags
      BY <1>2, <2>1 DEF FieldInputs, IdKinds, Flags, Lists
    <3> QED BY <3>1, <3>2, SetKeepsDraft
  <2>2. CASE f = "title"
    <3>1. e \in Set(d, f, RawTexts)
      BY <2>0, <2>2 DEF RecordingCalls
    <3>2. RawTexts \subseteq FieldInputs(k, f) /\ f \notin Lists /\ f \notin Flags
      BY <1>2, <2>2 DEF FieldInputs, IdKinds, Flags, Lists
    <3> QED BY <3>1, <3>2, SetKeepsDraft
  <2>3. CASE f = "title_aliases"
    <3>1. e \in Push(d, f, RawTexts)
      BY <2>0, <2>3 DEF RecordingCalls
    <3>2. RawTexts \subseteq FieldInputs(k, f) /\ f \in Lists /\ f \notin Flags
      BY <1>2, <2>3 DEF FieldInputs, IdKinds, Flags, Lists
    <3> QED BY <3>1, <3>2, PushKeepsDraft
  <2>4. CASE f = "artist"
    <3>1. e \in Set(d, f, PartyInputs)
      BY <2>0, <2>4 DEF RecordingCalls
    <3>2. PartyInputs \subseteq FieldInputs(k, f) /\ f \notin Lists /\ f \notin Flags
      BY <1>2, <2>4 DEF FieldInputs, IdKinds, Flags, Lists
    <3> QED BY <3>1, <3>2, SetKeepsDraft
  <2>5. CASE f \in {"featuring", "contributors"}
    <3>1. e \in Push(d, f, PartyInputs)
      BY <2>0, <2>5 DEF RecordingCalls
    <3>2. PartyInputs \subseteq FieldInputs(k, f) /\ f \in Lists /\ f \notin Flags
      BY <1>2, <2>5 DEF FieldInputs, IdKinds, Flags, Lists
    <3> QED BY <3>1, <3>2, PushKeepsDraft
  <2>6. CASE f = "work"
    <3>1. e \in Set(d, f, References("iswc"))
      BY <2>0, <2>6 DEF RecordingCalls
    <3>2. References("iswc") \subseteq FieldInputs(k, f) /\ f \notin Lists /\ f \notin Flags
      BY <1>2, <2>6 DEF FieldInputs, IdKinds, Flags, Lists
    <3> QED BY <3>1, <3>2, SetKeepsDraft
  <2>7. CASE f \in {"genre", "sub_genre"}
    <3>1. PICK v \in Options(Genres) : e = [d EXCEPT ![f] = v]
      BY <2>0, <2>7 DEF RecordingCalls
    <3>2. FieldValues(k, f) = Options(Genres)
      BY <2>7 DEF FieldValues, FieldInputs, IdKinds, Flags, Lists
    <3> QED BY <3>1, <3>2, UpdateKeepsDraft
  <2>8. CASE f = "record_year"
    <3>1. e \in Set(d, f, Years)
      BY <2>0, <2>8 DEF RecordingCalls
    <3>2. Years \subseteq FieldInputs(k, f) /\ f \notin Lists /\ f \notin Flags
      BY <1>2, <2>8 DEF FieldInputs, IdKinds, Flags, Lists
    <3> QED BY <3>1, <3>2, SetKeepsDraft
  <2>9. CASE f = "performers"
    <3>1. e \in Push(d, f, PerformerInputs) \/ e \in PerformerInstruments(d)
      BY <2>0, <2>9 DEF RecordingCalls
    <3>2. PerformerInputs \subseteq FieldInputs(k, f) /\ f \in Lists /\ f \notin Flags
      BY <2>9 DEF FieldInputs, IdKinds, Flags, Lists, Performers
    <3>3. CASE e \in Push(d, f, PerformerInputs)
      BY <3>2, <3>3, PushKeepsDraft
    <3>4. CASE e \in PerformerInstruments(d)
      BY <2>0, <1>2, <3>4, InstrumentsKeepDraft
    <3> QED BY <3>1, <3>3, <3>4
  <2>10. CASE f = "producers"
    <3>1. e \in Push(d, f, RawCodes["isni"])
      BY <2>0, <2>10 DEF RecordingCalls
    <3>2. RawCodes["isni"] \subseteq FieldInputs(k, f) /\ f \in Lists /\ f \notin Flags
      BY <1>2, <2>10 DEF FieldInputs, IdKinds, Flags, Lists
    <3> QED BY <3>1, <3>2, PushKeepsDraft
  <2>11. CASE f = "bpm"
    <3>1. e \in Set(d, f, Bpms)
      BY <2>0, <2>11 DEF RecordingCalls
    <3>2. Bpms \subseteq FieldInputs(k, f) /\ f \notin Lists /\ f \notin Flags
      BY <1>2, <2>11 DEF FieldInputs, IdKinds, Flags, Lists
    <3> QED BY <3>1, <3>2, SetKeepsDraft
  <2>12. CASE f = "places"
    <3>1. e \in Set(d, f, PlacesInputs)
      BY <2>0, <2>12 DEF RecordingCalls
    <3>2. PlacesInputs \subseteq FieldInputs(k, f) /\ f \notin Lists /\ f \notin Flags
      BY <1>2, <2>12 DEF FieldInputs, IdKinds, Flags, Lists
    <3> QED BY <3>1, <3>2, SetKeepsDraft
  <2>13. CASE f = "offchain_extension"
    <3>1. e \in Set(d, f, HashSizes)
      BY <2>0, <2>13 DEF RecordingCalls
    <3>2. HashSizes \subseteq FieldInputs(k, f) /\ f \notin Lists /\ f \notin Flags
      BY <1>2, <2>13 DEF FieldInputs, IdKinds, Flags, Lists
    <3> QED BY <3>1, <3>2, SetKeepsDraft
  <2> QED BY <2>0, <2>1, <2>2, <2>3, <2>4, <2>5, <2>6, <2>7, <2>8, <2>9, <2>10, <2>11, <2>12,
         <2>13 DEF Fields
<1>3. CASE k = "Release"
  <2>0. e \in ReleaseCalls(d, f) /\ f \in Fields("Release") /\ IsDraft("Release", d)
    BY <1>3 DEF Calls
  <2>1. CASE f = "upc"
    <3>1. e \in Set(d, f, RawCodes["upc"])
      BY <2>0, <2>1 DEF ReleaseCalls
    <3>2. RawCodes["upc"] \subseteq FieldInputs(k, f) /\ f \notin Lists /\ f \notin Flags
      BY <1>3, <2>1 DEF FieldInputs, IdKinds, Flags, Lists
    <3> QED BY <3>1, <3>2, SetKeepsDraft
  <2>2. CASE f \in {"title", "distributor_name"}
    <3>1. e \in Set(d, f, RawTexts)
      BY <2>0, <2>2 DEF ReleaseCalls
    <3>2. RawTexts \subseteq FieldInputs(k, f) /\ f \notin Lists /\ f \notin Flags
      BY <1>3, <2>2 DEF FieldInputs, IdKinds, Flags, Lists
    <3> QED BY <3>1, <3>2, SetKeepsDraft
  <2>3. CASE f \in {"title_aliases", "cover_contributors"}
    <3>1. e \in Push(d, f, RawTexts)
      BY <2>0, <2>3 DEF ReleaseCalls
    <3>2. RawTexts \subseteq FieldInputs(k, f) /\ f \in Lists /\ f \notin Flags
      BY <1>3, <2>3 DEF FieldInputs, IdKinds, Flags, Lists
    <3> QED BY <3>1, <3>2, PushKeepsDraft
  <2>4. CASE f = "artist"
    <3>1. e \in Set(d, f, PartyInputs)
      BY <2>0, <2>4 DEF ReleaseCalls
    <3>2. PartyInputs \subseteq FieldInputs(k, f) /\ f \notin Lists /\ f \notin Flags
      BY <1>3, <2>4 DEF FieldInputs, IdKinds, Flags, Lists
    <3> QED BY <3>1, <3>2, SetKeepsDraft
  <2>5. CASE f = "featuring"
    <3>1. e \in Push(d, f, PartyInputs)
      BY <2>0, <2>5 DEF ReleaseCalls
    <3>2. PartyInputs \subseteq FieldInputs(k, f) /\ f \in Lists /\ f \notin Flags
      BY <1>3, <2>5 DEF FieldInputs, IdKinds, Flags, Lists
    <3> QED BY <3>1, <3>2, PushKeepsDraft
  <2>6. CASE f = "tracks"
    <3>1. e \in Push(d, f, TrackInputs)
      BY <2>0, <2>6 DEF ReleaseCalls
    <3>2. TrackInputs \subseteq FieldInputs(k, f) /\ f \in Lists /\ f \notin Flags
      BY <1>3, <2>6 DEF FieldInputs, IdKinds, Flags, Lists
    <3> QED BY <3>1, <3>2, PushKeepsDraft
  <2>7. CASE f = "producers"
    <3>1. e \in Push(d, f, ProducerInputs)
      BY <2>0, <2>7 DEF ReleaseCalls
    <3>2. ProducerInputs \subseteq FieldInputs(k, f) /\ f \in Lists /\ f \notin Flags
      BY <1>3, <2>7 DEF FieldInputs, IdKinds, Flags, Lists
    <3> QED BY <3>1, <3>2, PushKeepsDraft
  <2>8. CASE f = "editorial"
    <3>1. e \in Set(d, f, {TRUE})
      BY <2>0, <2>8 DEF ReleaseCalls
    <3>2. {TRUE} \subseteq FieldInputs(k, f) /\ f \notin Lists /\ f \notin Flags
      BY <1>3, <2>8 DEF FieldInputs, IdKinds, Flags, Lists
    <3> QED BY <3>1, <3>2, SetKeepsDraft
  <2>9. CASE f = "release_date"
    <3>1. e \in Set(d, f, Dates)
      BY <2>0, <2>9 DEF ReleaseCalls
    <3>2. Dates \subseteq FieldInputs(k, f) /\ f \notin Lists /\ f \notin Flags
      BY <1>3, <2>9 DEF FieldInputs, IdKinds, Flags, Lists
    <3> QED BY <3>1, <3>2, SetKeepsDraft
  <2>10. CASE f = "offchain_extension"
    <3>1. e \in Set(d, f, HashSizes)
      BY <2>0, <2>10 DEF ReleaseCalls
    <3>2. HashSizes \subseteq FieldInputs(k, f) /\ f \notin Lists /\ f \notin Flags
      BY <1>3, <2>10 DEF FieldInputs, IdKinds, Flags, Lists
    <3> QED BY <3>1, <3>2, SetKeepsDraft
  <2> QED BY <2>0, <2>1, <2>2, <2>3, <2>4, <2>5, <2>6, <2>7, <2>8, <2>9, <2>10 DEF Fields
<1> QED BY <1>1, <1>2, <1>3 DEF MiddsKinds

-----------------------------------------------------------------------------
(* What the chain makes of each kind of input that passed.                 *)

\* All that is typed is in ASCII, the slips too.
AsciiCharacters == Characters \ {WideDigit}
TypedInAscii ==
  Typos \subseteq AsciiCharacters /\ \A k \in IdKinds : RawCodes[k] \subseteq Seq(AsciiCharacters)

LEMMA CodeStored ==
  ASSUME TypedInAscii, NEW k \in IdKinds, NEW raw \in RawCodes[k], ~FaultyCode(k, raw)
  PROVE  Validate(k, Parsed[k][raw][1]) = Ok
<1>1. Parsed[k][raw] = Parse(k, raw)
  BY InputsAssumption DEF ParsedCodes
<1>2. raw \in Seq(Characters)
  BY InputsAssumption DEF Codes
<1>3. Ascii(raw)
  <2>1. raw \in Seq(AsciiCharacters)
    BY DEF TypedInAscii
  <2>2. \A i \in DOMAIN raw : raw[i] \in AsciiCharacters
    BY <2>1
  <2> QED BY <2>2 DEF Ascii, AsciiCharacters
<1>4. Parse(k, raw) # None
  BY <1>1 DEF FaultyCode
<1>5. Canonical(k, raw)
  BY <1>2, <1>3, <1>4, ParsersCanonical
<1>6. PICK c \in Seq(Inked) : Parse(k, raw) = Some(c) /\ Validate(k, c) = Ok
  BY <1>5 DEF Canonical
<1>7. Parsed[k][raw][1] = c
  BY <1>1, <1>6 DEF Some
<1> QED BY <1>6, <1>7

\* A code as its field, its place in a list and its kind leave it.
LEMMA BuiltCode ==
  ASSUME NEW f, NEW i, NEW k, NEW raw, ~FaultyCode(k, raw)
  PROVE  BuildCode(f, i, k, raw).val = Some(Parsed[k][raw][1])
BY DEF BuildCode, FaultyCode, Good

LEMMA OfOptionOk ==
  ASSUME NEW o, MaybeOne(o)
  PROVE  /\ OfOption(ValidateIswc, o) = IF o = None THEN Ok ELSE ValidateIswc(o[1])
         /\ OfOption(ValidateIsrc, o) = IF o = None THEN Ok ELSE ValidateIsrc(o[1])
         /\ OfOption(ValidateIpi, o) = IF o = None THEN Ok ELSE ValidateIpi(o[1])
         /\ OfOption(ValidateIsni, o) = IF o = None THEN Ok ELSE ValidateIsni(o[1])
         /\ OfOption(NonEmpty, o) = IF o = None THEN Ok ELSE NonEmpty(o[1])
         /\ OfOption(ValidatePlaces, o) = IF o = None THEN Ok ELSE ValidatePlaces(o[1])
<1>1. ASSUME NEW r, r = [i \in DOMAIN o |-> r[i]]
      PROVE  FirstError(r) = IF o = None THEN Ok ELSE r[1]
  BY <1>1, OptionResult
<1>0. o # None => 1 \in DOMAIN o
  BY DEF MaybeOne
<1>2. OfOption(ValidateIswc, o) = IF o = None THEN Ok ELSE ValidateIswc(o[1])
  <2> DEFINE r == [i \in DOMAIN o |-> ValidateIswc(o[i])]
  <2>1. OfOption(ValidateIswc, o) = FirstError(r)
    BY DEF OfOption, Each
  <2>2. FirstError(r) = IF o = None THEN Ok ELSE r[1]
    BY <1>1
  <2> QED BY <2>1, <2>2, <1>0
<1>3. OfOption(ValidateIsrc, o) = IF o = None THEN Ok ELSE ValidateIsrc(o[1])
  <2> DEFINE r == [i \in DOMAIN o |-> ValidateIsrc(o[i])]
  <2>1. OfOption(ValidateIsrc, o) = FirstError(r)
    BY DEF OfOption, Each
  <2>2. FirstError(r) = IF o = None THEN Ok ELSE r[1]
    BY <1>1
  <2> QED BY <2>1, <2>2, <1>0
<1>4. OfOption(ValidateIpi, o) = IF o = None THEN Ok ELSE ValidateIpi(o[1])
  <2> DEFINE r == [i \in DOMAIN o |-> ValidateIpi(o[i])]
  <2>1. OfOption(ValidateIpi, o) = FirstError(r)
    BY DEF OfOption, Each
  <2>2. FirstError(r) = IF o = None THEN Ok ELSE r[1]
    BY <1>1
  <2> QED BY <2>1, <2>2, <1>0
<1>5. OfOption(ValidateIsni, o) = IF o = None THEN Ok ELSE ValidateIsni(o[1])
  <2> DEFINE r == [i \in DOMAIN o |-> ValidateIsni(o[i])]
  <2>1. OfOption(ValidateIsni, o) = FirstError(r)
    BY DEF OfOption, Each
  <2>2. FirstError(r) = IF o = None THEN Ok ELSE r[1]
    BY <1>1
  <2> QED BY <2>1, <2>2, <1>0
<1>6. OfOption(NonEmpty, o) = IF o = None THEN Ok ELSE NonEmpty(o[1])
  <2> DEFINE r == [i \in DOMAIN o |-> NonEmpty(o[i])]
  <2>1. OfOption(NonEmpty, o) = FirstError(r)
    BY DEF OfOption, Each
  <2>2. FirstError(r) = IF o = None THEN Ok ELSE r[1]
    BY <1>1
  <2> QED BY <2>1, <2>2, <1>0
<1>7. OfOption(ValidatePlaces, o) = IF o = None THEN Ok ELSE ValidatePlaces(o[1])
  <2> DEFINE r == [i \in DOMAIN o |-> ValidatePlaces(o[i])]
  <2>1. OfOption(ValidatePlaces, o) = FirstError(r)
    BY DEF OfOption, Each
  <2>2. FirstError(r) = IF o = None THEN Ok ELSE r[1]
    BY <1>1
  <2> QED BY <2>1, <2>2, <1>0
<1> QED BY <1>2, <1>3, <1>4, <1>5, <1>6, <1>7

LEMMA SomeIsOne == ASSUME NEW v PROVE Some(v) # None /\ Some(v)[1] = v /\ MaybeOne(Some(v))
  BY DEF Some, None, MaybeOne

LEMMA NoneMaybe == MaybeOne(None)
  BY DEF MaybeOne

\* The results of two and of three rules.
LEMMA TwoRules ==
  ASSUME NEW a, NEW b
  PROVE  FirstError(<<a, b>>) = Ok <=> a = Ok /\ b = Ok
<1> DEFINE r == <<a, b>>
<1>1. AnySeq(r) /\ \A S : Within(r, S) <=> a \in S /\ b \in S
  BY TuplesAreSeqs
<1> HIDE DEF r
<1>2. Within(r, {Ok}) <=> a = Ok /\ b = Ok
  BY <1>1
<1> QED BY <1>1, <1>2, FirstErrorFacts DEF r

LEMMA ThreeRules ==
  ASSUME NEW a, NEW b, NEW c
  PROVE  FirstError(<<a, b, c>>) = Ok <=> a = Ok /\ b = Ok /\ c = Ok
<1> DEFINE r == <<a, b, c>>
<1>1. AnySeq(r) /\ \A S : Within(r, S) <=> a \in S /\ b \in S /\ c \in S
  BY TuplesAreSeqs
<1> HIDE DEF r
<1>2. Within(r, {Ok}) <=> a = Ok /\ b = Ok /\ c = Ok
  BY <1>1
<1> QED BY <1>1, <1>2, FirstErrorFacts DEF r

LEMMA PartyRules ==
  ASSUME NEW ipi, MaybeOne(ipi), NEW isni, MaybeOne(isni)
  PROVE  ValidateParty(Party(ipi, isni)) = Ok
           <=> (ipi # None => ValidateIpi(ipi[1]) = Ok) /\ (isni # None => ValidateIsni(isni[1]) = Ok)
<1> DEFINE p == Party(ipi, isni)
<1>1. p.ipi = ipi /\ p.isni = isni
  BY DEF Party
<1> HIDE DEF p
<1>2. ValidateParty(p) = Ok <=> OfOption(ValidateIpi, ipi) = Ok /\ OfOption(ValidateIsni, isni) = Ok
  BY <1>1, TwoRules DEF ValidateParty
<1>3. /\ OfOption(ValidateIpi, ipi) = IF ipi = None THEN Ok ELSE ValidateIpi(ipi[1])
      /\ OfOption(ValidateIsni, isni) = IF isni = None THEN Ok ELSE ValidateIsni(isni[1])
  BY OfOptionOk
<1> QED BY <1>2, <1>3 DEF p

LEMMA PartyStored ==
  ASSUME TypedInAscii, NEW f, NEW i, NEW p \in PartyInputs, ~FaultyParty(p)
  PROVE  ValidateParty(ParseParty(f, i, p).val[1]) = Ok
<1> DEFINE c == Parsed[p.kind][p.raw][1]
<1>1. p.kind \in {"ipi", "isni"} /\ p.kind \in IdKinds /\ p.raw \in RawCodes[p.kind]
  BY DEF PartyInputs, IdKinds
<1>2. Validate(p.kind, c) = Ok
  BY <1>1, CodeStored DEF FaultyParty
<1>3. BuildCode(f, i, p.kind, p.raw).val = Some(c)
  BY BuiltCode DEF FaultyParty
<1> HIDE DEF c
<1>4. ParseParty(f, i, p) = Good(PartyOf(p.kind, c))
  BY <1>3, SomeIsOne DEF ParseParty
<1>5. ParseParty(f, i, p).val[1] = PartyOf(p.kind, c)
  BY <1>4, SomeIsOne DEF Good
<1>6. CASE p.kind = "ipi"
  <2>1. PartyOf(p.kind, c) = Party(Some(c), None) /\ ValidateIpi(c) = Ok
    BY <1>2, <1>6 DEF PartyOf, Validate
  <2> QED BY <2>1, <1>5, SomeIsOne, NoneMaybe, PartyRules
<1>7. CASE p.kind = "isni"
  <2>1. PartyOf(p.kind, c) = Party(None, Some(c)) /\ ValidateIsni(c) = Ok
    BY <1>2, <1>7 DEF PartyOf, Validate
  <2> QED BY <2>1, <1>5, SomeIsOne, NoneMaybe, PartyRules
<1> QED BY <1>1, <1>6, <1>7

LEMMA ReferenceStored ==
  ASSUME TypedInAscii, NEW f, NEW i, NEW k \in {"iswc", "isrc"}, NEW ref \in References(k),
         ~FaultyReference(k, ref)
  PROVE  LET v == BuildReference(f, i, k, ref).val[1]
         IN  /\ k = "iswc" => ValidateWorkRef(v) = Ok
             /\ k = "isrc" => ValidateRecordingRef(v) = Ok
<1> DEFINE v == BuildReference(f, i, k, ref).val[1]
<1>1. ref.code = None \/ \E raw \in RawCodes[k] : ref.code = Some(raw)
  BY DEF References, ByMidds, ByCode
<1>2. MaybeOne(v.code) /\ (v.code = None \/ Validate(k, v.code[1]) = Ok)
  <2>1. CASE ref.code = None
    <3>1. BuildReference(f, i, k, ref) = Good(ref)
      BY <2>1 DEF BuildReference
    <3>2. v = ref
      BY <3>1, SomeIsOne DEF Good
    <3> QED BY <2>1, <3>2, NoneMaybe
  <2>2. CASE ref.code # None
    <3>1. PICK raw \in RawCodes[k] : ref.code = Some(raw)
      BY <1>1, <2>2
    <3>2. ref.code[1] = raw
      BY <3>1, SomeIsOne
    <3>3. ~FaultyCode(k, raw)
      BY <2>2, <3>2 DEF FaultyReference
    <3> DEFINE c == Parsed[k][raw][1]
    <3>4. Validate(k, c) = Ok
      BY <3>3, CodeStored DEF IdKinds
    <3>5. BuildCode(f, i, k, raw).val = Some(c)
      BY <3>3, BuiltCode
    <3> HIDE DEF c
    <3>6. BuildReference(f, i, k, ref) = Good(ByCode(c))
      BY <2>2, <3>2, <3>5, SomeIsOne DEF BuildReference
    <3>7. v = ByCode(c)
      BY <3>6, SomeIsOne DEF Good
    <3>8. v.code = Some(c)
      BY <3>7 DEF ByCode
    <3> QED BY <3>4, <3>8, SomeIsOne
  <2> QED BY <2>1, <2>2
<1> HIDE DEF v
<1>3. /\ OfOption(ValidateIswc, v.code) = IF v.code = None THEN Ok ELSE ValidateIswc(v.code[1])
      /\ OfOption(ValidateIsrc, v.code) = IF v.code = None THEN Ok ELSE ValidateIsrc(v.code[1])
  BY <1>2, OfOptionOk
<1>4. /\ k = "iswc" => (v.code = None \/ ValidateIswc(v.code[1]) = Ok)
      /\ k = "isrc" => (v.code = None \/ ValidateIsrc(v.code[1]) = Ok)
  BY <1>2 DEF Validate
<1>5. k = "iswc" => ValidateWorkRef(v) = Ok
  BY <1>3, <1>4 DEF ValidateWorkRef
<1>6. k = "isrc" => ValidateRecordingRef(v) = Ok
  BY <1>3, <1>4 DEF ValidateRecordingRef
<1> QED BY <1>5, <1>6 DEF v

LEMMA PerformerStored ==
  ASSUME TypedInAscii, NEW i, NEW p \in Performers, ~FaultyParty(p),
         ~(Len(p.instruments) > ListMax)
  PROVE  ValidatePerformerId(ParsePerformer(p, i).val[1]) = Ok
<1>1. p.kind \in PerformerKinds /\ p.raw \in RawCodes[p.kind]
  <2>1. \A q \in PerformerInputs : q.kind \in PerformerKinds /\ q.raw \in RawCodes[q.kind]
    BY InputsAssumption
  <2>2. CASE p \in PerformerInputs
    BY <2>1, <2>2
  <2>3. CASE p \notin PerformerInputs
    <3>1. PICK q \in PerformerInputs, l \in InstrumentLists : p = [q EXCEPT !.instruments = l]
      BY <2>3 DEF Performers
    <3>2. p.kind = q.kind /\ p.raw = q.raw
      BY <3>1
    <3> QED BY <2>1, <3>2
  <2> QED BY <2>2, <2>3
<1> DEFINE c == Parsed[p.kind][p.raw][1]
<1>2. p.kind \in IdKinds
  BY <1>1 DEF PerformerKinds, IdKinds
<1>3. Validate(p.kind, c) = Ok
  BY <1>1, <1>2, CodeStored DEF FaultyParty
<1>4. BuildCode("performers", i, p.kind, p.raw).val = Some(c)
  BY BuiltCode DEF FaultyParty
<1> HIDE DEF c
<1> DEFINE v == [kind |-> p.kind, code |-> c, instruments |-> p.instruments]
<1>5. ParsePerformer(p, i) = Good(v)
  BY <1>4, SomeIsOne DEF ParsePerformer
<1>6. ParsePerformer(p, i).val[1] = v
  BY <1>5, SomeIsOne DEF Good
<1>7. v.kind = p.kind /\ v.code = c
  OBVIOUS
<1> HIDE DEF v
<1> QED BY <1>3, <1>6, <1>7 DEF ValidatePerformerId

LEMMA OptionalStored ==
  ASSUME TypedInAscii, NEW i, NEW k \in {"ipi", "isni"}, NEW raw \in Options(RawCodes[k]),
         ~(raw # None /\ FaultyCode(k, raw[1]))
  PROVE  LET o == BuildOptional("creators", i, k, raw).val
         IN  /\ o # None /\ MaybeOne(o[1])
             /\ o[1] = None <=> raw = None
             /\ o[1] # None => Validate(k, o[1][1]) = Ok
<1> DEFINE o == BuildOptional("creators", i, k, raw).val
<1>1. CASE raw = None
  <2>1. o = Some(None)
    BY <1>1 DEF BuildOptional, Good
  <2> HIDE DEF o
  <2> QED BY <1>1, <2>1, SomeIsOne, NoneMaybe DEF o
<1>2. CASE raw # None
  <2>1. PICK r \in RawCodes[k] : raw = Some(r)
    BY <1>2 DEF Options
  <2>2. raw[1] = r
    BY <2>1, SomeIsOne
  <2> DEFINE c == Parsed[k][r][1]
  <2>3. Validate(k, c) = Ok
    BY <1>2, <2>2, CodeStored DEF IdKinds
  <2>4. BuildCode("creators", i, k, r).val = Some(c)
    BY <1>2, <2>2, BuiltCode
  <2> HIDE DEF c
  <2>5. BuildOptional("creators", i, k, raw) = Good(Some(c))
    BY <1>2, <2>2, <2>4, SomeIsOne DEF BuildOptional
  <2>6. o = Some(Some(c))
    BY <2>5 DEF Good
  <2> HIDE DEF o
  <2>7. o # None /\ o[1] = Some(c)
    BY <2>6, SomeIsOne
  <2> QED BY <1>2, <2>3, <2>7, SomeIsOne DEF o
<1> QED BY <1>1, <1>2

LEMMA CreatorStored ==
  ASSUME TypedInAscii, NEW i \in Nat, NEW c \in CreatorInputs \cup {SampleCreator},
         ~FaultyCreator(c)
  PROVE  ValidateCreator(BuildCreator(c, i).val[1]) = Ok
<1> DEFINE ipi == BuildOptional("creators", i, "ipi", c.ipi).val
           isni == BuildOptional("creators", i, "isni", c.isni).val
           v == [roles |-> c.roles, party |-> Party(ipi[1], isni[1])]
<1>1. c.ipi \in Options(RawCodes["ipi"]) /\ c.isni \in Options(RawCodes["isni"])
  <2>1. CASE c \in CreatorInputs
    BY <2>1, InputsAssumption
  <2>2. CASE c = SampleCreator
    <3>1. c.ipi = Some(SampleCode["ipi"]) /\ c.isni = None
      BY <2>2 DEF SampleCreator
    <3>2. SampleCode["ipi"] \in RawCodes["ipi"]
      BY SamplesAreInputs DEF IdKinds
    <3> QED BY <3>1, <3>2 DEF Options
  <2> QED BY <2>1, <2>2
<1>2. /\ c.roles # {} /\ ~(c.ipi = None /\ c.isni = None)
      /\ ~(c.ipi # None /\ FaultyCode("ipi", c.ipi[1]))
      /\ ~(c.isni # None /\ FaultyCode("isni", c.isni[1]))
  BY DEF FaultyCreator
<1>3. /\ ipi # None /\ MaybeOne(ipi[1]) /\ ipi[1] # None => ValidateIpi(ipi[1][1]) = Ok
      /\ isni # None /\ MaybeOne(isni[1]) /\ isni[1] # None => ValidateIsni(isni[1][1]) = Ok
  BY <1>1, <1>2, OptionalStored DEF Validate
<1>3a. MaybeOne(ipi[1]) /\ MaybeOne(isni[1]) /\ ipi # None /\ isni # None
  BY <1>1, <1>2, OptionalStored
<1>4. BuildCreator(c, i).val = Some(v)
  <2> HIDE DEF v
  <2>1. BuildCreator(c, i).val = Some([roles |-> c.roles, party |-> Party(ipi[1], isni[1])])
    BY <1>2, <1>3a DEF BuildCreator
  <2> QED BY <2>1 DEF v
<1>5. ValidateParty(Party(ipi[1], isni[1])) = Ok
  <2> HIDE DEF ipi, isni
  <2> QED BY <1>3, <1>3a, PartyRules
<1>6. v.roles = c.roles /\ v.party = Party(ipi[1], isni[1])
  OBVIOUS
<1>7. BuildCreator(c, i).val[1] = v
  BY <1>4, SomeIsOne
<1> HIDE DEF v, ipi, isni
<1>8. Unless(v.roles = {}, EmptyMandatoryField) = Ok
  BY <1>2, <1>6 DEF Unless
<1>9. ValidateCreator(v) = Ok
  BY <1>5, <1>6, <1>8, TwoRules DEF ValidateCreator
<1> QED BY <1>7, <1>9

LEMMA TextStored ==
  ASSUME NEW f, NEW i, NEW raw, raw.trimmed \in Nat, ~FaultyText(raw)
  PROVE  BuildText(f, i, raw).val = Some(raw.trimmed) /\ NonEmpty(raw.trimmed) = Ok
<1>1. raw.trimmed \in 1..TextMax
  BY TypesAssumption DEF FaultyText
<1> QED BY <1>1 DEF BuildText, Good, NonEmpty

LEMMA ProducerStored ==
  ASSUME TypedInAscii, NEW i, NEW p \in ProducerInputs, ~FaultyCode("isni", p.isni),
         ~FaultyText(p.catalog)
  PROVE  ValidateProducer(BuildProducer(p, i).val[1]) = Ok
<1> DEFINE c == Parsed["isni"][p.isni][1]
           t == p.catalog.trimmed
           v == [isni |-> c, catalog_number |-> t]
<1>1. p.isni \in RawCodes["isni"] /\ t \in Nat
  BY InputsAssumption
<1>2. Validate("isni", c) = Ok
  BY <1>1, CodeStored DEF IdKinds
<1>3. BuildCode("producers", i, "isni", p.isni).val = Some(c)
  BY BuiltCode
<1>4. BuildText("producers", i, p.catalog).val = Some(t) /\ NonEmpty(t) = Ok
  BY <1>1, TextStored
<1> HIDE DEF c, t
<1>5. BuildProducer(p, i).val = Some(v)
  BY <1>3, <1>4, SomeIsOne DEF BuildProducer, Both
<1>6. BuildProducer(p, i).val[1] = v
  BY <1>5, SomeIsOne
<1>7. v.isni = c /\ v.catalog_number = t
  OBVIOUS
<1> HIDE DEF v
<1>8. ValidateProducer(v) = Ok
  BY <1>2, <1>4, <1>7, TwoRules DEF ValidateProducer, Validate
<1> QED BY <1>6, <1>8

LEMMA OffchainStored ==
  ASSUME NEW o, o = None \/ (o = Some(o[1]) /\ o[1] \in 1..TextMax)
  PROVE  BuildOffchain(o).val = Some(o) /\ ValidateOffchain(o) = Ok
<1>1. BuildOffchain(o).val = Some(o)
  BY DEF BuildOffchain, Good
<1>2. MaybeOne(o)
  BY DEF MaybeOne, Some
<1>3. OfOption(NonEmpty, o) = IF o = None THEN Ok ELSE NonEmpty(o[1])
  BY <1>2, OfOptionOk
<1>4. o # None => NonEmpty(o[1]) = Ok
  BY DEF NonEmpty
<1> QED BY <1>1, <1>3, <1>4 DEF ValidateOffchain

LEMMA PlacesStored ==
  ASSUME NEW p \in PlacesInputs, ~FaultyValue("Recording", "places", p)
  PROVE  OfOption(ValidatePlaces, BuildPlaces(<<p>>).val[1]) = Ok
<1> DEFINE slots == {"recording", "mixing", "mastering"}
           place(slot) == IF slot = None THEN Good(None)
                          ELSE IF BuildText("places", 0, slot[1]).val = None
                          THEN BuildText("places", 0, slot[1])
                          ELSE Good(BuildText("places", 0, slot[1]).val)
           q == [slot \in slots |-> place(p[slot])]
           v == [slot \in slots |-> q[slot].val[1]]
<1>1. DOMAIN p = slots /\ \A slot \in slots : p[slot] \in Options(RawTexts)
  BY DEF PlacesInputs, Options
<1>2. ASSUME NEW slot \in slots PROVE p[slot] = None \/ ~FaultyText(p[slot][1])
  BY <1>1 DEF FaultyValue, IdKinds
<1>3. ASSUME NEW slot \in slots
      PROVE  /\ q[slot].errs = <<>> /\ MaybeOne(q[slot].val[1])
             /\ q[slot].val[1] # None => NonEmpty(q[slot].val[1][1]) = Ok
  <2>1. CASE p[slot] = None
    <3>1. q[slot] = Good(None)
      BY <2>1
    <3>2. q[slot].errs = <<>> /\ q[slot].val[1] = None
      <4> HIDE DEF q
      <4> QED BY <3>1, SomeIsOne DEF Good
    <3> HIDE DEF q
    <3> QED BY <3>2, NoneMaybe
  <2>2. CASE p[slot] # None
    <3>1. PICK raw \in RawTexts : p[slot] = Some(raw)
      BY <1>1, <2>2 DEF Options
    <3>2. p[slot][1] = raw /\ ~FaultyText(raw) /\ raw.trimmed \in Nat
      BY <1>2, <2>2, <3>1, SomeIsOne, RawTextsMeasured
    <3> DEFINE t == raw.trimmed
    <3>3. BuildText("places", 0, raw).val = Some(t) /\ NonEmpty(t) = Ok
      BY <3>2, TextStored
    <3> HIDE DEF t
    <3>4. q[slot] = Good(Some(t))
      BY <2>2, <3>2, <3>3, SomeIsOne
    <3>5. q[slot].errs = <<>> /\ q[slot].val[1] = Some(t)
      <4> HIDE DEF q
      <4> QED BY <3>4, SomeIsOne DEF Good
    <3> HIDE DEF q
    <3> QED BY <3>3, <3>5, SomeIsOne
  <2> QED BY <2>1, <2>2
<1> HIDE DEF q
<1>4. BuildPlaces(<<p>>).val[1] = Some(v)
  <2>1. <<p>> # None /\ <<p>>[1] = p
    BY DEF None
  <2>2. q["recording"].errs \o q["mixing"].errs \o q["mastering"].errs = <<>>
    <3>1. q["recording"].errs = <<>> /\ q["mixing"].errs = <<>> /\ q["mastering"].errs = <<>>
      BY <1>3
    <3> QED BY <3>1
  <2>3. DOMAIN q = slots
    BY DEF q
  <2>4. BuildPlaces(<<p>>) =
          IF q["recording"].errs \o q["mixing"].errs \o q["mastering"].errs # <<>>
          THEN [errs |-> q["recording"].errs \o q["mixing"].errs \o q["mastering"].errs,
                val |-> None]
          ELSE Good(Some([slot \in DOMAIN q |-> q[slot].val[1]]))
    BY <2>1, Zenon DEF BuildPlaces, q
  <2>5. BuildPlaces(<<p>>) = Good(Some(v))
    BY <2>2, <2>3, <2>4
  <2> HIDE DEF v
  <2> QED BY <2>5, SomeIsOne DEF Good
<1>5. \A slot \in slots : v[slot] = q[slot].val[1]
  OBVIOUS
<1> HIDE DEF v
<1>6. ASSUME NEW slot \in slots PROVE OfOption(NonEmpty, v[slot]) = Ok
  <2>1. MaybeOne(v[slot]) /\ (v[slot] # None => NonEmpty(v[slot][1]) = Ok)
    BY <1>3, <1>5
  <2>2. OfOption(NonEmpty, v[slot]) = IF v[slot] = None THEN Ok ELSE NonEmpty(v[slot][1])
    BY <2>1, OfOptionOk
  <2> QED BY <2>1, <2>2
<1>7. ValidatePlaces(v) = Ok
  BY <1>6, ThreeRules DEF ValidatePlaces
<1> QED BY <1>4, <1>7, SomeIsOne, OfOptionOk

-----------------------------------------------------------------------------
(* The parts of a record, each built from its field.                       *)

\* The chain's own rule of a field, for one value or for one entry of its list.
ValueStored(k, f, v) ==
  CASE f \in IdKinds -> Validate(f, v) = Ok
    [] f \in {"title", "title_aliases", "distributor_name", "cover_contributors"} ->
         NonEmpty(v) = Ok
    [] f \in {"artist", "featuring", "contributors"} -> ValidateParty(v) = Ok
    [] f = "performers" -> ValidatePerformerId(v) = Ok
    [] f \in {"work", "samples"} -> ValidateWorkRef(v) = Ok
    [] f = "tracks" -> ValidateRecordingRef(v.recording) = Ok
    [] f = "creators" -> ValidateCreator(v) = Ok
    [] f = "producers" -> IF k = "Recording" THEN ValidateIsni(v) = Ok ELSE ValidateProducer(v) = Ok
    [] f = "places" -> OfOption(ValidatePlaces, v) = Ok
    [] f = "offchain_extension" -> ValidateOffchain(v) = Ok

PartStored(k, d, f, v) ==
  IF f \in Lists
  THEN AnySeq(v) /\ DOMAIN v = DOMAIN d[f] /\ \A i \in DOMAIN v : ValueStored(k, f, v[i])
  ELSE ValueStored(k, f, v)

\* A part names the faults of its field; without any, a list keeps every entry
\* and no value is one that the chain refuses.
PartBuilt(part, k, d, f) ==
  /\ Names(part, FieldFaults(k, d, f))
  /\ FieldFaults(k, d, f) = {} /\ f \in Lists => Len(part.val[1]) = Len(d[f])
  /\ FieldFaults(k, d, f) = {} /\ TypedInAscii => PartStored(k, d, f, part.val[1])

LEMMA DraftOption ==
  ASSUME NEW k, NEW d, IsDraft(k, d), NEW f \in Fields(k), f \notin Lists, f \notin Flags,
         d[f] # <<>>
  PROVE  d[f] = <<d[f][1]>> /\ d[f][1] \in FieldInputs(k, f)
<1>1. d[f] \in Options(FieldInputs(k, f))
  BY DEF IsDraft, FieldValues
<1>2. PICK v \in FieldInputs(k, f) : d[f] = <<v>>
  BY <1>1 DEF Options, None, Some
<1> QED BY <1>2

LEMMA DraftList ==
  ASSUME NEW k, NEW d, IsDraft(k, d), NEW f \in Fields(k), f \in Lists
  PROVE  /\ d[f] \in Seq(FieldInputs(k, f))
         /\ DOMAIN d[f] \subseteq Nat /\ \A i \in DOMAIN d[f] : d[f][i] \in FieldInputs(k, f)
<1>1. d[f] \in Seq(FieldInputs(k, f))
  BY DEF IsDraft, FieldValues, Lists, Flags
<1> DEFINE l == d[f]
<1>2. l \in Seq(FieldInputs(k, f))
  BY <1>1
<1> HIDE DEF l
<1>3. DOMAIN l \subseteq Nat /\ \A i \in DOMAIN l : l[i] \in FieldInputs(k, f)
  BY <1>2
<1> QED BY <1>2, <1>3 DEF l

LEMMA ListIsBuilt ==
  ASSUME NEW k, NEW d, IsDraft(k, d), NEW f \in Fields(k), f \in Lists,
         NEW results, DOMAIN results = DOMAIN d[f],
         \A i \in DOMAIN d[f] : Judged(results[i], Verdict(FaultyValue(k, f, d[f][i]), f, i)),
         TypedInAscii /\ (\A i \in DOMAIN d[f] : ~FaultyValue(k, f, d[f][i])) =>
           \A i \in DOMAIN d[f] : ValueStored(k, f, results[i].val[1])
  PROVE  /\ PartBuilt(Collected(f, results), k, d, f)
         /\ FieldFaults(k, d, f) = {} =>
              /\ Collected(f, results).val[1] = Values(results)
              /\ \A i \in DOMAIN d[f] : ~FaultyValue(k, f, d[f][i])
<1> DEFINE S == FieldInputs(k, f)
           part == Collected(f, results)
<1>1. d[f] \in Seq(S)
  BY DraftList
<1> HIDE DEF S
<1>2. /\ Names(part, FieldFaults(k, d, f))
      /\ FieldFaults(k, d, f) = {} => part.val = <<Values(results)>>
  BY <1>1, ListPart
<1>3. Len(Values(results)) = Len(d[f])
  <2> DEFINE l == d[f]
  <2>1. l \in Seq(S) /\ DOMAIN results = DOMAIN l
    BY <1>1
  <2> HIDE DEF l
  <2>2. DOMAIN results = 1..Len(l) /\ Len(l) \in Nat
    BY <2>1
  <2>3. Len([i \in 1..Len(l) |-> results[i].val[1]]) = Len(l)
    BY <2>2
  <2> QED BY <2>2, <2>3 DEF Values, l
<1>4. ASSUME FieldFaults(k, d, f) = {}, NEW i \in DOMAIN d[f] PROVE ~FaultyValue(k, f, d[f][i])
  <2>1. ListFaults(f, Len(d[f]), FaultyEntries(k, d, f)) = {}
    BY <1>4 DEF FieldFaults
  <2>2. FaultyEntries(k, d, f) = {}
    BY <2>1 DEF ListFaults
  <2> QED BY <2>2 DEF FaultyEntries
<1> HIDE DEF part
<1>5. FieldFaults(k, d, f) = {} => part.val[1] = Values(results)
  BY <1>2
<1>6. ASSUME FieldFaults(k, d, f) = {}, TypedInAscii
      PROVE  PartStored(k, d, f, Values(results))
  <2> DEFINE v == Values(results)
  <2>1. DOMAIN v = DOMAIN d[f] /\ \A i \in DOMAIN v : v[i] = results[i].val[1]
    BY DEF Values
  <2>2. \A i \in DOMAIN v : ValueStored(k, f, v[i])
    BY <2>1, <1>4, <1>6
  <2>3. AnySeq(v)
    <3> DEFINE l == d[f]
    <3>1. l \in Seq(S) /\ DOMAIN results = DOMAIN l
      BY <1>1
    <3> HIDE DEF l
    <3>2. AnySeq(l)
      BY <3>1, SeqIsAny
    <3>3. v = [i \in DOMAIN l |-> v[i]]
      BY <3>1 DEF Values
    <3> HIDE DEF v
    <3> QED BY <3>2, <3>3, EachIsAny
  <2> HIDE DEF v
  <2> QED BY <2>1, <2>2, <2>3 DEF PartStored, v
<1> QED BY <1>2, <1>3, <1>4, <1>5, <1>6 DEF PartBuilt, part

LEMMA CodePart ==
  ASSUME NEW k, NEW d, IsDraft(k, d), NEW f \in Fields(k), f \in {"iswc", "isrc", "upc"},
         d[f] # <<>>
  PROVE  PartBuilt(BuildCode(f, 0, f, d[f][1]), k, d, f)
<1>1. f \in FieldNames /\ f \notin Lists /\ f \notin Flags
  BY DEF FieldNames, Lists, Flags
<1>2. d[f] = <<d[f][1]>> /\ d[f][1] \in FieldInputs(k, f)
  BY <1>1, DraftOption
<1> DEFINE v == d[f][1]
<1>3. FaultyValue(k, f, v) <=> FaultyCode(f, v)
  BY DEF FaultyValue, IdKinds
<1>4. Verdict(FaultyValue(k, f, v), f, 0) = Verdict(FaultyCode(f, v), f, 0)
  BY <1>3 DEF Verdict
<1>5. FieldFaults(k, d, f) = Verdict(FaultyCode(f, v), f, 0)
  BY <1>1, <1>2, <1>4, OptionFaults
<1>6. Judged(BuildCode(f, 0, f, d[f][1]), Verdict(FaultyCode(f, v), f, 0))
  BY <1>1, CodeJudged
<1>7. ASSUME FieldFaults(k, d, f) = {}, TypedInAscii
      PROVE  ValueStored(k, f, BuildCode(f, 0, f, d[f][1]).val[1])
  <2>1. ~FaultyCode(f, v)
    BY <1>5, <1>7 DEF Verdict
  <2>2. f \in IdKinds /\ v \in RawCodes[f]
    BY <1>2 DEF FieldInputs, IdKinds
  <2>3. Validate(f, Parsed[f][v][1]) = Ok
    BY <2>1, <2>2, <1>7, CodeStored
  <2>4. BuildCode(f, 0, f, v).val[1] = Parsed[f][v][1]
    BY <2>1, BuiltCode, SomeIsOne
  <2> QED BY <2>2, <2>3, <2>4 DEF ValueStored
<1> QED BY <1>1, <1>5, <1>6, <1>7 DEF Judged, PartBuilt, PartStored

LEMMA TextPart ==
  ASSUME NEW k, NEW d, IsDraft(k, d), NEW f \in Fields(k), f \in {"title", "distributor_name"},
         d[f] # <<>>
  PROVE  PartBuilt(BuildText(f, 0, d[f][1]), k, d, f)
<1>1. f \in FieldNames /\ f \notin Lists /\ f \notin Flags
  BY DEF FieldNames, Lists, Flags
<1>2. d[f] = <<d[f][1]>> /\ d[f][1] \in FieldInputs(k, f)
  BY <1>1, DraftOption
<1> DEFINE v == d[f][1]
<1>3. FaultyValue(k, f, v) <=> FaultyText(v)
  BY DEF FaultyValue, IdKinds
<1>4. Verdict(FaultyValue(k, f, v), f, 0) = Verdict(FaultyText(v), f, 0)
  BY <1>3 DEF Verdict
<1>5. FieldFaults(k, d, f) = Verdict(FaultyText(v), f, 0)
  BY <1>1, <1>2, <1>4, OptionFaults
<1>6. Judged(BuildText(f, 0, d[f][1]), Verdict(FaultyText(v), f, 0))
  <2>1. FieldInputs(k, f) = RawTexts \cup {SampleText}
    BY DEF FieldInputs, IdKinds
  <2>2. d[f][1].trimmed \in Nat
    BY <2>1, <1>2, RawTextsMeasured
  <2> QED BY <2>2, <1>1, TextJudged
<1>7. ASSUME FieldFaults(k, d, f) = {}, TypedInAscii
      PROVE  ValueStored(k, f, BuildText(f, 0, d[f][1]).val[1])
  <2>1. ~FaultyText(v)
    BY <1>5, <1>7 DEF Verdict
  <2>2. FieldInputs(k, f) = RawTexts \cup {SampleText}
    BY DEF FieldInputs, IdKinds
  <2>3. v.trimmed \in Nat
    BY <2>2, <1>2, RawTextsMeasured
  <2>4. BuildText(f, 0, v).val[1] = v.trimmed /\ NonEmpty(v.trimmed) = Ok
    BY <2>1, <2>3, TextStored, SomeIsOne
  <2> QED BY <2>4 DEF ValueStored, IdKinds
<1> QED BY <1>1, <1>5, <1>6, <1>7 DEF Judged, PartBuilt, PartStored

LEMMA ArtistPart ==
  ASSUME NEW k, NEW d, IsDraft(k, d), NEW f \in Fields(k), f = "artist", d[f] # <<>>
  PROVE  PartBuilt(ParseParty(f, 0, d[f][1]), k, d, f)
<1>1. f \in FieldNames /\ f \notin Lists /\ f \notin Flags
  BY DEF FieldNames, Lists, Flags
<1>2. d[f] = <<d[f][1]>> /\ d[f][1] \in FieldInputs(k, f)
  BY <1>1, DraftOption
<1> DEFINE v == d[f][1]
<1>3. FaultyValue(k, f, v) <=> FaultyParty(v)
  BY DEF FaultyValue, IdKinds
<1>4. Verdict(FaultyValue(k, f, v), f, 0) = Verdict(FaultyParty(v), f, 0)
  BY <1>3 DEF Verdict
<1>5. FieldFaults(k, d, f) = Verdict(FaultyParty(v), f, 0)
  BY <1>1, <1>2, <1>4, OptionFaults
<1>6. Judged(ParseParty(f, 0, d[f][1]), Verdict(FaultyParty(v), f, 0))
  BY <1>1, PartyJudged
<1>7. ASSUME FieldFaults(k, d, f) = {}, TypedInAscii
      PROVE  ValueStored(k, f, ParseParty(f, 0, d[f][1]).val[1])
  <2>1. ~FaultyParty(v)
    BY <1>5, <1>7 DEF Verdict
  <2>2. v \in PartyInputs
    BY <1>2 DEF FieldInputs, IdKinds
  <2>3. ValidateParty(ParseParty(f, 0, v).val[1]) = Ok
    BY <2>1, <2>2, <1>7, PartyStored
  <2> QED BY <2>3 DEF ValueStored, IdKinds
<1> QED BY <1>1, <1>5, <1>6, <1>7 DEF Judged, PartBuilt, PartStored

LEMMA WorkPart ==
  ASSUME NEW k, NEW d, IsDraft(k, d), NEW f \in Fields(k), f = "work", d[f] # <<>>
  PROVE  PartBuilt(BuildReference(f, 0, "iswc", d[f][1]), k, d, f)
<1>1. f \in FieldNames /\ f \notin Lists /\ f \notin Flags
  BY DEF FieldNames, Lists, Flags
<1>2. d[f] = <<d[f][1]>> /\ d[f][1] \in FieldInputs(k, f)
  BY <1>1, DraftOption
<1> DEFINE v == d[f][1]
<1>3. FaultyValue(k, f, v) <=> FaultyReference("iswc", v)
  BY DEF FaultyValue, IdKinds
<1>4. Verdict(FaultyValue(k, f, v), f, 0) = Verdict(FaultyReference("iswc", v), f, 0)
  BY <1>3 DEF Verdict
<1>5. FieldFaults(k, d, f) = Verdict(FaultyReference("iswc", v), f, 0)
  BY <1>1, <1>2, <1>4, OptionFaults
<1>6. Judged(BuildReference(f, 0, "iswc", d[f][1]), Verdict(FaultyReference("iswc", v), f, 0))
  BY <1>1, ReferenceJudged
<1>7. ASSUME FieldFaults(k, d, f) = {}, TypedInAscii
      PROVE  ValueStored(k, f, BuildReference(f, 0, "iswc", d[f][1]).val[1])
  <2>1. ~FaultyReference("iswc", v)
    BY <1>5, <1>7 DEF Verdict
  <2>2. v \in References("iswc")
    BY <1>2 DEF FieldInputs, IdKinds
  <2>3. ValidateWorkRef(BuildReference(f, 0, "iswc", v).val[1]) = Ok
    BY <2>1, <2>2, <1>7, ReferenceStored
  <2> QED BY <2>3 DEF ValueStored, IdKinds
<1> QED BY <1>1, <1>5, <1>6, <1>7 DEF Judged, PartBuilt, PartStored

LEMMA OffchainPart ==
  ASSUME NEW k, NEW d, IsDraft(k, d), NEW f \in Fields(k), f = "offchain_extension"
  PROVE  PartBuilt(BuildOffchain(d[f]), k, d, f)
<1>1. f \in FieldNames /\ f \notin Lists /\ f \notin Flags
  BY DEF FieldNames, Lists, Flags
<1>2. CASE d[f] = None
  <2>1. BuildOffchain(d[f]) = Good(None)
    BY <1>2 DEF BuildOffchain
  <2>2. FieldFaults(k, d, f) = {}
    BY <1>1, <1>2, OptionFaults
  <2>3. Names(BuildOffchain(d[f]), FieldFaults(k, d, f))
    BY <2>1, <2>2, GoodJudged DEF Judged
  <2>4. ValueStored(k, f, BuildOffchain(d[f]).val[1])
    <3>1. BuildOffchain(d[f]).val[1] = d[f] /\ ValidateOffchain(d[f]) = Ok
      BY <1>2, OffchainStored, SomeIsOne
    <3> QED BY <3>1 DEF ValueStored, IdKinds
  <2> QED BY <1>1, <2>3, <2>4 DEF PartBuilt, PartStored
<1>3. CASE d[f] # None
  <2> DEFINE v == d[f][1]
  <2>1. d[f] = <<v>>
    BY <1>1, <1>3, DraftOption DEF None
  <2>2. FaultyValue(k, f, v) <=> v \notin 1..TextMax
    BY DEF FaultyValue, IdKinds
  <2>3. FieldFaults(k, d, f) = Verdict(v \notin 1..TextMax, f, 0)
    <3>1. Verdict(FaultyValue(k, f, v), f, 0) = Verdict(v \notin 1..TextMax, f, 0)
      BY <2>2 DEF Verdict
    <3> QED BY <3>1, <1>1, <2>1, OptionFaults
  <2> HIDE DEF v
  <2>4. Judged(BuildOffchain(<<v>>), Verdict(v \notin 1..TextMax, "offchain_extension", 0))
    BY OffchainJudged
  <2>5. Names(BuildOffchain(d[f]), FieldFaults(k, d, f))
    BY <2>1, <2>3, <2>4 DEF Judged
  <2>6. ASSUME FieldFaults(k, d, f) = {} PROVE ValueStored(k, f, BuildOffchain(d[f]).val[1])
    <3>1. v \in 1..TextMax
      BY <2>3, <2>6 DEF Verdict
    <3>2. d[f] = Some(d[f][1]) /\ d[f][1] \in 1..TextMax
      BY <2>1, <3>1 DEF Some
    <3>3. BuildOffchain(d[f]).val[1] = d[f] /\ ValidateOffchain(d[f]) = Ok
      BY <3>2, OffchainStored, SomeIsOne
    <3> QED BY <3>3 DEF ValueStored, IdKinds
  <2> QED BY <1>1, <2>5, <2>6 DEF PartBuilt, PartStored
<1> QED BY <1>2, <1>3

LEMMA PlacesPart ==
  ASSUME NEW d, IsDraft("Recording", d), NEW f \in Fields("Recording"), f = "places"
  PROVE  PartBuilt(BuildPlaces(d[f]), "Recording", d, f)
<1>1. f \in FieldNames /\ f \notin Lists /\ f \notin Flags
  BY DEF FieldNames, Lists, Flags
<1>2. CASE d[f] = None
  <2>1. BuildPlaces(d[f]) = Good(None)
    BY <1>2 DEF BuildPlaces
  <2>2. FieldFaults("Recording", d, f) = {}
    BY <1>1, <1>2, OptionFaults
  <2>3. Names(BuildPlaces(d[f]), FieldFaults("Recording", d, f))
    BY <2>1, <2>2, GoodJudged DEF Judged
  <2>4. ValueStored("Recording", f, BuildPlaces(d[f]).val[1])
    <3>1. BuildPlaces(d[f]).val[1] = None
      BY <2>1, SomeIsOne DEF Good
    <3>2. OfOption(ValidatePlaces, None) = Ok
      BY NoneMaybe, OfOptionOk
    <3> QED BY <3>1, <3>2 DEF ValueStored, IdKinds
  <2> QED BY <1>1, <2>3, <2>4 DEF PartBuilt, PartStored
<1>3. CASE d[f] # None
  <2> DEFINE v == d[f][1]
  <2>1. d[f] = <<v>> /\ v \in FieldInputs("Recording", f)
    BY <1>1, <1>3, DraftOption DEF None
  <2>2. FieldFaults("Recording", d, f) = Verdict(FaultyValue("Recording", f, v), f, 0)
    BY <1>1, <2>1, OptionFaults
  <2>3. v \in PlacesInputs
    BY <2>1 DEF FieldInputs, IdKinds
  <2> HIDE DEF v
  <2>4. Names(BuildPlaces(<<v>>), Verdict(FaultyValue("Recording", "places", v), "places", 0))
    BY <2>3, PlacesNamed
  <2>5. ASSUME FieldFaults("Recording", d, f) = {}
        PROVE  ValueStored("Recording", f, BuildPlaces(d[f]).val[1])
    <3>1. ~FaultyValue("Recording", "places", v)
      BY <2>2, <2>5 DEF Verdict, v
    <3>2. OfOption(ValidatePlaces, BuildPlaces(<<v>>).val[1]) = Ok
      BY <2>3, <3>1, PlacesStored
    <3> QED BY <2>1, <3>2 DEF ValueStored, IdKinds
  <2>6. Names(BuildPlaces(d[f]), FieldFaults("Recording", d, f))
    BY <2>1, <2>2, <2>4 DEF v
  <2> QED BY <1>1, <2>5, <2>6 DEF PartBuilt, PartStored
<1> QED BY <1>2, <1>3

LEMMA TextsPart ==
  ASSUME NEW k, NEW d, IsDraft(k, d), NEW f \in Fields(k),
         f \in {"title_aliases", "cover_contributors"}
  PROVE  PartBuilt(BuildTextList(f, d[f]), k, d, f)
<1> DEFINE results == [i \in DOMAIN d[f] |-> BuildText(f, i, d[f][i])]
<1>1. f \in Lists /\ f \in FieldNames
  BY DEF Lists, FieldNames
<1>2. BuildTextList(f, d[f]) = Collected(f, results)
  BY DEF BuildTextList, BuildList
<1>3. ASSUME NEW i \in DOMAIN d[f]
      PROVE  Judged(results[i], Verdict(FaultyValue(k, f, d[f][i]), f, i))
  <2> DEFINE v == d[f][i]
  <2>1. i \in Nat /\ v \in FieldInputs(k, f)
    BY <1>1, DraftList
  <2>2. FaultyValue(k, f, v) <=> FaultyText(v)
    BY DEF FaultyValue, IdKinds
  <2>3. Verdict(FaultyValue(k, f, v), f, i) = Verdict(FaultyText(v), f, i)
    BY <2>2 DEF Verdict
  <2>4. Judged(BuildText(f, i, d[f][i]), Verdict(FaultyText(v), f, i))
    <3>1. v.trimmed \in Nat
      BY <2>1, RawTextsMeasured, InputsAssumption DEF FieldInputs, IdKinds
    <3> QED BY <3>1, <2>1, <1>1, TextJudged
  <2> QED BY <2>3, <2>4
<1>4. DOMAIN results = DOMAIN d[f]
  OBVIOUS
<1>5. ASSUME TypedInAscii, NEW i \in DOMAIN d[f], ~FaultyValue(k, f, d[f][i])
      PROVE  ValueStored(k, f, results[i].val[1])
  <2> DEFINE v == d[f][i]
  <2>1. i \in Nat /\ v \in FieldInputs(k, f)
    BY <1>1, DraftList
  <2>2. ~FaultyText(v) /\ v.trimmed \in Nat
    BY <1>5, <2>1, RawTextsMeasured DEF FaultyValue, FieldInputs, IdKinds
  <2>3. BuildText(f, i, v).val[1] = v.trimmed /\ NonEmpty(v.trimmed) = Ok
    BY <2>2, TextStored, SomeIsOne
  <2> QED BY <2>3 DEF ValueStored, IdKinds
<1> HIDE DEF results
<1> QED BY <1>1, <1>2, <1>3, <1>4, <1>5, ListIsBuilt

LEMMA PartiesPart ==
  ASSUME NEW k, NEW d, IsDraft(k, d), NEW f \in Fields(k), f \in {"featuring", "contributors"}
  PROVE  PartBuilt(ParsePartyList(f, d[f]), k, d, f)
<1> DEFINE results == [i \in DOMAIN d[f] |-> ParseParty(f, i, d[f][i])]
<1>1. f \in Lists /\ f \in FieldNames
  BY DEF Lists, FieldNames
<1>2. ParsePartyList(f, d[f]) = Collected(f, results)
  BY DEF ParsePartyList, BuildList
<1>3. ASSUME NEW i \in DOMAIN d[f]
      PROVE  Judged(results[i], Verdict(FaultyValue(k, f, d[f][i]), f, i))
  <2> DEFINE v == d[f][i]
  <2>1. i \in Nat /\ v \in FieldInputs(k, f)
    BY <1>1, DraftList
  <2>2. FaultyValue(k, f, v) <=> FaultyParty(v)
    BY DEF FaultyValue, IdKinds
  <2>3. Verdict(FaultyValue(k, f, v), f, i) = Verdict(FaultyParty(v), f, i)
    BY <2>2 DEF Verdict
  <2>4. Judged(ParseParty(f, i, d[f][i]), Verdict(FaultyParty(v), f, i))
    BY <2>1, <1>1, PartyJudged
  <2> QED BY <2>3, <2>4
<1>4. DOMAIN results = DOMAIN d[f]
  OBVIOUS
<1>5. ASSUME TypedInAscii, NEW i \in DOMAIN d[f], ~FaultyValue(k, f, d[f][i])
      PROVE  ValueStored(k, f, results[i].val[1])
  <2> DEFINE v == d[f][i]
  <2>1. i \in Nat /\ v \in FieldInputs(k, f)
    BY <1>1, DraftList
  <2>2. ~FaultyParty(v) /\ v \in PartyInputs
    BY <1>5, <2>1 DEF FaultyValue, FieldInputs, IdKinds
  <2>3. ValidateParty(ParseParty(f, i, v).val[1]) = Ok
    BY <1>5, <2>2, PartyStored
  <2> QED BY <2>3 DEF ValueStored, IdKinds
<1> HIDE DEF results
<1> QED BY <1>1, <1>2, <1>3, <1>4, <1>5, ListIsBuilt

LEMMA SamplesPart ==
  ASSUME NEW k, NEW d, IsDraft(k, d), NEW f \in Fields(k), f = "samples"
  PROVE  PartBuilt(BuildList(f, d[f], LAMBDA ref, i : BuildReference(f, i, "iswc", ref)), k, d, f)
<1> DEFINE results == [i \in DOMAIN d[f] |-> BuildReference(f, i, "iswc", d[f][i])]
<1>1. f \in Lists /\ f \in FieldNames
  BY DEF Lists, FieldNames
<1>2. BuildList(f, d[f], LAMBDA ref, i : BuildReference(f, i, "iswc", ref)) = Collected(f, results)
  BY DEF BuildList
<1>3. ASSUME NEW i \in DOMAIN d[f]
      PROVE  Judged(results[i], Verdict(FaultyValue(k, f, d[f][i]), f, i))
  <2> DEFINE v == d[f][i]
  <2>1. i \in Nat /\ v \in FieldInputs(k, f)
    BY <1>1, DraftList
  <2>2. FaultyValue(k, f, v) <=> FaultyReference("iswc", v)
    BY DEF FaultyValue, IdKinds
  <2>3. Verdict(FaultyValue(k, f, v), f, i) = Verdict(FaultyReference("iswc", v), f, i)
    BY <2>2 DEF Verdict
  <2>4. Judged(BuildReference(f, i, "iswc", d[f][i]), Verdict(FaultyReference("iswc", v), f, i))
    BY <2>1, <1>1, ReferenceJudged
  <2> QED BY <2>3, <2>4
<1>4. DOMAIN results = DOMAIN d[f]
  OBVIOUS
<1>5. ASSUME TypedInAscii, NEW i \in DOMAIN d[f], ~FaultyValue(k, f, d[f][i])
      PROVE  ValueStored(k, f, results[i].val[1])
  <2> DEFINE v == d[f][i]
  <2>1. i \in Nat /\ v \in FieldInputs(k, f)
    BY <1>1, DraftList
  <2>2. ~FaultyReference("iswc", v) /\ v \in References("iswc")
    BY <1>5, <2>1 DEF FaultyValue, FieldInputs, IdKinds
  <2>3. ValidateWorkRef(BuildReference(f, i, "iswc", v).val[1]) = Ok
    BY <1>5, <2>2, ReferenceStored
  <2> QED BY <2>3 DEF ValueStored, IdKinds
<1> HIDE DEF results
<1> QED BY <1>1, <1>2, <1>3, <1>4, <1>5, ListIsBuilt

LEMMA CreatorsPart ==
  ASSUME NEW k, NEW d, IsDraft(k, d), NEW f \in Fields(k), f = "creators"
  PROVE  PartBuilt(BuildList(f, d[f], BuildCreator), k, d, f)
<1> DEFINE results == [i \in DOMAIN d[f] |-> BuildCreator(d[f][i], i)]
<1>1. f \in Lists /\ f \in FieldNames
  BY DEF Lists, FieldNames
<1>2. BuildList(f, d[f], BuildCreator) = Collected(f, results)
  BY DEF BuildList
<1>3. ASSUME NEW i \in DOMAIN d[f]
      PROVE  Judged(results[i], Verdict(FaultyValue(k, f, d[f][i]), f, i))
  <2> DEFINE v == d[f][i]
  <2>1. i \in Nat /\ v \in FieldInputs(k, f)
    BY <1>1, DraftList
  <2>2. FaultyValue(k, f, v) <=> FaultyCreator(v)
    BY DEF FaultyValue, IdKinds
  <2>3. Verdict(FaultyValue(k, f, v), f, i) = Verdict(FaultyCreator(v), f, i)
    BY <2>2 DEF Verdict
  <2>4. Judged(BuildCreator(d[f][i], i), Verdict(FaultyCreator(v), f, i))
    BY <2>1, <1>1, CreatorJudged
  <2> QED BY <2>3, <2>4
<1>4. DOMAIN results = DOMAIN d[f]
  OBVIOUS
<1>5. ASSUME TypedInAscii, NEW i \in DOMAIN d[f], ~FaultyValue(k, f, d[f][i])
      PROVE  ValueStored(k, f, results[i].val[1])
  <2> DEFINE v == d[f][i]
  <2>1. i \in Nat /\ v \in FieldInputs(k, f)
    BY <1>1, DraftList
  <2>2. ~FaultyCreator(v) /\ v \in CreatorInputs \cup {SampleCreator}
    BY <1>5, <2>1 DEF FaultyValue, FieldInputs, IdKinds
  <2>3. ValidateCreator(BuildCreator(v, i).val[1]) = Ok
    BY <1>5, <2>1, <2>2, CreatorStored
  <2> QED BY <2>3 DEF ValueStored, IdKinds
<1> HIDE DEF results
<1> QED BY <1>1, <1>2, <1>3, <1>4, <1>5, ListIsBuilt

LEMMA IsnisPart ==
  ASSUME NEW d, IsDraft("Recording", d), NEW f \in Fields("Recording"), f = "producers"
  PROVE  PartBuilt(BuildList(f, d[f], LAMBDA raw, i : BuildCode(f, i, "isni", raw)),
                   "Recording", d, f)
<1> DEFINE results == [i \in DOMAIN d[f] |-> BuildCode(f, i, "isni", d[f][i])]
<1>1. f \in Lists /\ f \in FieldNames
  BY DEF Lists, FieldNames
<1>2. BuildList(f, d[f], LAMBDA raw, i : BuildCode(f, i, "isni", raw)) = Collected(f, results)
  BY DEF BuildList
<1>3. ASSUME NEW i \in DOMAIN d[f]
      PROVE  Judged(results[i], Verdict(FaultyValue("Recording", f, d[f][i]), f, i))
  <2> DEFINE v == d[f][i]
  <2>1. i \in Nat /\ v \in FieldInputs("Recording", f)
    BY <1>1, DraftList
  <2>2. FaultyValue("Recording", f, v) <=> FaultyCode("isni", v)
    BY DEF FaultyValue, IdKinds
  <2>3. Verdict(FaultyValue("Recording", f, v), f, i) = Verdict(FaultyCode("isni", v), f, i)
    BY <2>2 DEF Verdict
  <2>4. Judged(BuildCode(f, i, "isni", d[f][i]), Verdict(FaultyCode("isni", v), f, i))
    BY <2>1, <1>1, CodeJudged
  <2> QED BY <2>3, <2>4
<1>4. DOMAIN results = DOMAIN d[f]
  OBVIOUS
<1>5. ASSUME TypedInAscii, NEW i \in DOMAIN d[f], ~FaultyValue("Recording", f, d[f][i])
      PROVE  ValueStored("Recording", f, results[i].val[1])
  <2> DEFINE v == d[f][i]
  <2>1. i \in Nat /\ v \in FieldInputs("Recording", f)
    BY <1>1, DraftList
  <2>2. ~FaultyCode("isni", v) /\ v \in RawCodes["isni"]
    BY <1>5, <2>1 DEF FaultyValue, FieldInputs, IdKinds
  <2>3. Validate("isni", Parsed["isni"][v][1]) = Ok
    BY <1>5, <2>2, CodeStored DEF IdKinds
  <2>4. BuildCode(f, i, "isni", v).val[1] = Parsed["isni"][v][1]
    BY <2>2, BuiltCode, SomeIsOne
  <2> QED BY <2>3, <2>4 DEF ValueStored, Validate, IdKinds
<1> HIDE DEF results
<1> QED BY <1>1, <1>2, <1>3, <1>4, <1>5, ListIsBuilt

LEMMA ProducersPart ==
  ASSUME NEW d, IsDraft("Release", d), NEW f \in Fields("Release"), f = "producers"
  PROVE  PartBuilt(BuildList(f, d[f], BuildProducer), "Release", d, f)
<1> DEFINE results == [i \in DOMAIN d[f] |-> BuildProducer(d[f][i], i)]
<1>1. f \in Lists /\ f \in FieldNames
  BY DEF Lists, FieldNames
<1>2. BuildList(f, d[f], BuildProducer) = Collected(f, results)
  BY DEF BuildList
<1>3. ASSUME NEW i \in DOMAIN d[f]
      PROVE  Judged(results[i], Verdict(FaultyValue("Release", f, d[f][i]), f, i))
  <2> DEFINE v == d[f][i]
  <2>1. i \in Nat /\ v \in FieldInputs("Release", f)
    BY <1>1, DraftList
  <2>2. FaultyValue("Release", f, v) <=> FaultyCode("isni", v.isni) \/ FaultyText(v.catalog)
    BY DEF FaultyValue, IdKinds
  <2>3. Verdict(FaultyValue("Release", f, v), f, i)
          = Verdict(FaultyCode("isni", v.isni) \/ FaultyText(v.catalog), f, i)
    BY <2>2 DEF Verdict
  <2>4. Judged(BuildProducer(d[f][i], i),
               Verdict(FaultyCode("isni", v.isni) \/ FaultyText(v.catalog), f, i))
    <3>1. v.catalog.trimmed \in Nat
      BY <2>1, RawTextsMeasured, InputsAssumption DEF FieldInputs, IdKinds
    <3> QED BY <3>1, <2>1, <1>1, ProducerJudged
  <2> QED BY <2>3, <2>4
<1>4. DOMAIN results = DOMAIN d[f]
  OBVIOUS
<1>5. ASSUME TypedInAscii, NEW i \in DOMAIN d[f], ~FaultyValue("Release", f, d[f][i])
      PROVE  ValueStored("Release", f, results[i].val[1])
  <2> DEFINE v == d[f][i]
  <2>1. i \in Nat /\ v \in FieldInputs("Release", f)
    BY <1>1, DraftList
  <2>2. ~FaultyCode("isni", v.isni) /\ ~FaultyText(v.catalog) /\ v \in ProducerInputs
    BY <1>5, <2>1 DEF FaultyValue, FieldInputs, IdKinds
  <2>3. ValidateProducer(BuildProducer(v, i).val[1]) = Ok
    BY <1>5, <2>2, ProducerStored
  <2> QED BY <2>3 DEF ValueStored, IdKinds
<1> HIDE DEF results
<1> QED BY <1>1, <1>2, <1>3, <1>4, <1>5, ListIsBuilt

\* Nothing goes into the payload but the instruments that were given.
LEMMA PerformersPart ==
  ASSUME NEW d, IsDraft("Recording", d), NEW f \in Fields("Recording"), f = "performers"
  PROVE  LET part == BuildList(f, d[f], ParsePerformer)
         IN  /\ PartBuilt(part, "Recording", d, f)
             /\ FieldFaults("Recording", d, f) = {} =>
                  \A i \in DOMAIN part.val[1] : part.val[1][i].instruments = d[f][i].instruments
<1> DEFINE results == [i \in DOMAIN d[f] |-> ParsePerformer(d[f][i], i)]
           part == BuildList(f, d[f], ParsePerformer)
           bad(i) == FaultyParty(d[f][i]) \/ Len(d[f][i].instruments) > ListMax
<1>1. f \in Lists /\ f \in FieldNames
  BY DEF Lists, FieldNames
<1>2. part = Collected(f, results)
  BY DEF BuildList
<1>3. ASSUME NEW i \in DOMAIN d[f]
      PROVE  /\ Judged(results[i], Verdict(FaultyValue("Recording", f, d[f][i]), f, i))
             /\ ~FaultyValue("Recording", f, d[f][i]) =>
                  results[i].val[1].instruments = d[f][i].instruments
  <2> DEFINE v == d[f][i]
  <2>1. i \in Nat
    BY <1>1, DraftList
  <2>2. FaultyValue("Recording", f, v) <=> bad(i)
    BY DEF FaultyValue, IdKinds
  <2>3. Verdict(FaultyValue("Recording", f, v), f, i) = Verdict(bad(i), f, i)
    BY <2>2 DEF Verdict
  <2>4. Judged(ParsePerformer(v, i), Verdict(bad(i), f, i))
    BY <2>1, PerformerJudged
  <2>5. ~bad(i) => ParsePerformer(v, i).val[1].instruments = v.instruments
    BY <2>1, PerformerJudged
  <2>6. results[i] = ParsePerformer(v, i)
    OBVIOUS
  <2> HIDE DEF results, bad
  <2> QED BY <2>2, <2>3, <2>4, <2>5, <2>6
<1>4. DOMAIN results = DOMAIN d[f]
  OBVIOUS
<1>7. ASSUME TypedInAscii, NEW i \in DOMAIN d[f], ~FaultyValue("Recording", f, d[f][i])
      PROVE  ValueStored("Recording", f, results[i].val[1])
  <2> DEFINE v == d[f][i]
  <2>1. v \in FieldInputs("Recording", f)
    BY <1>1, DraftList
  <2>2. ~FaultyParty(v) /\ ~(Len(v.instruments) > ListMax) /\ v \in Performers
    BY <1>7, <2>1 DEF FaultyValue, FieldInputs, IdKinds
  <2>3. ValidatePerformerId(ParsePerformer(v, i).val[1]) = Ok
    BY <1>7, <2>2, PerformerStored
  <2> QED BY <2>3 DEF ValueStored, IdKinds
<1> HIDE DEF results, part
<1>5. /\ PartBuilt(Collected(f, results), "Recording", d, f)
      /\ FieldFaults("Recording", d, f) = {} =>
           /\ Collected(f, results).val[1] = Values(results)
           /\ \A i \in DOMAIN d[f] : ~FaultyValue("Recording", f, d[f][i])
  BY <1>1, <1>3, <1>4, <1>7, ListIsBuilt
<1>6. ASSUME FieldFaults("Recording", d, f) = {}, NEW i \in DOMAIN part.val[1]
      PROVE  part.val[1][i].instruments = d[f][i].instruments
  <2>1. part.val[1] = Values(results) /\ i \in DOMAIN d[f]
    BY <1>2, <1>4, <1>5, <1>6 DEF Values
  <2>2. Values(results)[i] = results[i].val[1]
    BY <2>1, <1>4 DEF Values
  <2> QED BY <2>1, <2>2, <1>3, <1>5, <1>6
<1> QED BY <1>2, <1>5, <1>6 DEF part

\* A track keeps its number, or takes its place.
LEMMA TracksPart ==
  ASSUME NEW d, IsDraft("Release", d), NEW f \in Fields("Release"), f = "tracks"
  PROVE  LET part == BuildTracks(d[f])
         IN  /\ PartBuilt(part, "Release", d, f)
             /\ FieldFaults("Release", d, f) = {} =>
                  \A i \in DOMAIN part.val[1] :
                    part.val[1][i].number = IF d[f][i].number = None THEN i ELSE d[f][i].number[1]
<1> DEFINE part == BuildTracks(d[f])
           bad(i) == FaultyReference("isrc", d[f][i].recording)
           numberOf(i) == IF d[f][i].number = None THEN i ELSE d[f][i].number[1]
           recordingOf(i) == BuildReference("tracks", i, "isrc", d[f][i].recording).val[1]
<1>1. f \in Lists /\ f \in FieldNames
  BY DEF Lists, FieldNames
<1>2. PICK results :
        /\ part = Collected("tracks", results)
        /\ DOMAIN results = DOMAIN d[f]
        /\ \A i \in DOMAIN d[f] : Judged(results[i], Verdict(bad(i), "tracks", i))
        /\ (\A i \in DOMAIN d[f] : ~bad(i)) =>
             \A i \in DOMAIN d[f] :
               /\ results[i].val[1].number = numberOf(i)
               /\ results[i].val[1].recording = recordingOf(i)
  <2> DEFINE l == d[f]
             S == FieldInputs("Release", f)
  <2>1. l \in Seq(S)
    BY <1>1, DraftList
  <2> HIDE DEF l, S
  <2>2. \E results :
           /\ BuildTracks(l) = Collected("tracks", results)
           /\ DOMAIN results = DOMAIN l
           /\ \A i \in DOMAIN l :
                Judged(results[i], Verdict(FaultyReference("isrc", l[i].recording), "tracks", i))
           /\ (\A i \in DOMAIN l : ~FaultyReference("isrc", l[i].recording)) =>
                \A i \in DOMAIN l :
                  /\ results[i].val[1].number
                       = IF l[i].number = None THEN i ELSE l[i].number[1]
                  /\ results[i].val[1].recording
                       = BuildReference("tracks", i, "isrc", l[i].recording).val[1]
    BY <2>1, TracksJudged
  <2> QED BY <2>2 DEF l
<1>3. ASSUME NEW i \in DOMAIN d[f]
      PROVE  /\ FaultyValue("Release", f, d[f][i]) <=> bad(i)
             /\ Judged(results[i], Verdict(FaultyValue("Release", f, d[f][i]), f, i))
  <2> DEFINE v == d[f][i]
  <2>1. FaultyValue("Release", f, v) <=> bad(i)
    BY DEF FaultyValue, IdKinds
  <2>2. Verdict(FaultyValue("Release", f, v), f, i)
          = Verdict(bad(i), f, i)
    BY <2>1 DEF Verdict
  <2> HIDE DEF bad
  <2> QED BY <1>2, <2>1, <2>2
<1> HIDE DEF part, bad, numberOf, recordingOf
<1>6. ASSUME TypedInAscii, \A i \in DOMAIN d[f] : ~FaultyValue("Release", f, d[f][i]),
             NEW i \in DOMAIN d[f]
      PROVE  ValueStored("Release", f, results[i].val[1])
  <2> DEFINE ref == d[f][i].recording
             v == results[i].val[1]
  <2>1. d[f][i] \in FieldInputs("Release", f)
    BY <1>1, DraftList
  <2>2. ref \in References("isrc")
    <3>1. \A q \in TrackInputs : q.recording \in References("isrc")
      BY DEF TrackInputs
    <3>2. ByCode(SampleCode["isrc"]) \in References("isrc")
      BY SamplesAreInputs DEF References, IdKinds
    <3>3. FieldInputs("Release", f) =
            TrackInputs \cup {[number |-> None, recording |-> ByCode(SampleCode["isrc"])]}
      BY DEF FieldInputs, IdKinds
    <3> QED BY <2>1, <3>1, <3>2, <3>3
  <2>3. \A j \in DOMAIN d[f] : ~bad(j)
    BY <1>3, <1>6
  <2>4. ~FaultyReference("isrc", ref)
    BY <2>3 DEF bad
  <2>5. v.recording = BuildReference("tracks", i, "isrc", ref).val[1]
    BY <1>2, <2>3 DEF recordingOf
  <2>6. ValidateRecordingRef(BuildReference("tracks", i, "isrc", ref).val[1]) = Ok
    BY <1>6, <2>2, <2>4, ReferenceStored
  <2> QED BY <2>5, <2>6 DEF ValueStored, IdKinds
<1>4. /\ PartBuilt(Collected(f, results), "Release", d, f)
      /\ FieldFaults("Release", d, f) = {} =>
           /\ Collected(f, results).val[1] = Values(results)
           /\ \A i \in DOMAIN d[f] : ~FaultyValue("Release", f, d[f][i])
  BY <1>1, <1>2, <1>3, <1>6, ListIsBuilt
<1>5. ASSUME FieldFaults("Release", d, f) = {}, NEW i \in DOMAIN part.val[1]
      PROVE  part.val[1][i].number = numberOf(i)
  <2>1. part.val[1] = Values(results) /\ i \in DOMAIN d[f]
    BY <1>2, <1>4, <1>5 DEF Values
  <2>2. Values(results)[i] = results[i].val[1]
    BY <2>1, <1>2 DEF Values
  <2>3. \A j \in DOMAIN d[f] : ~bad(j)
    BY <1>3, <1>4, <1>5
  <2> QED BY <2>1, <2>2, <2>3, <1>2
<1> QED BY <1>2, <1>4, <1>5 DEF part, numberOf

-----------------------------------------------------------------------------
(* The records.                                                            *)

\* The parts of a record and the order their diagnostics come in.
Assembly(k, d, F, order, parts, typed) ==
  /\ DOMAIN d = Fields(k) /\ F \subseteq Fields(k) \ Flags
  /\ \A f \in Fields(k) \ Flags : f \notin F => FieldFaults(k, d, f) = {}
  /\ order \in Seq(F) /\ \A f \in F : \E i \in DOMAIN order : order[i] = f
  /\ DOMAIN parts = F /\ DOMAIN typed \cap Lists = {}
  /\ \A f \in F : PartBuilt(parts[f], k, d, f)

LEMMA Assembled ==
  ASSUME NEW k, NEW d, NEW F, NEW order, NEW parts, NEW typed,
         Assembly(k, d, F, order, parts, typed)
  PROVE  LET b == Conclude(order, parts, typed)
             p == b.payload[1]
         IN  /\ b.status \in {"fields", "built"}
             /\ \A x : Holds(b.errors, x) <=> x \in Faults(k, d)
             /\ b.status = "built" =>
                  /\ DOMAIN p = F \cup DOMAIN typed
                  /\ \A f \in F : FieldFaults(k, d, f) = {} /\ p[f] = parts[f].val[1]
                  /\ \A f \in DOMAIN typed \ F : p[f] = typed[f]
                  /\ \A f \in DOMAIN p \cap Lists : Len(p[f]) = Len(d[f])
                  /\ TypedInAscii => \A f \in F : PartStored(k, d, f, p[f])
<1> DEFINE b == Conclude(order, parts, typed)
           p == b.payload[1]
           faults == [f \in F |-> FieldFaults(k, d, f)]
           whole == Whole(F, parts, typed)
<1>1. \A f \in F : Names(parts[f], faults[f])
  BY DEF Assembly, PartBuilt
<1>0. \A f \in F : faults[f] = FieldFaults(k, d, f)
  OBVIOUS
<1> HIDE DEF faults
<1>2. /\ b.status \in {"fields", "built"}
      /\ \A x : Holds(b.errors, x) <=> \E f \in F : x \in faults[f]
      /\ b.status = "built" => (\A f \in F : faults[f] = {}) /\ b.payload = Some(whole)
  <2>1. /\ order \in Seq(F) /\ \A f \in F : \E i \in DOMAIN order : order[i] = f
        /\ DOMAIN parts = F
    BY DEF Assembly
  <2> QED BY <1>1, <2>1, ConcludeNames
<1> HIDE DEF b
<1>3. ASSUME NEW x PROVE (\E f \in F : x \in faults[f]) <=> x \in Faults(k, d)
  <2>1. Faults(k, d) = UNION {FieldFaults(k, d, f) : f \in DOMAIN d \ Flags}
    BY FaultsByField
  <2>2. x \in Faults(k, d) <=> \E f \in Fields(k) \ Flags : x \in FieldFaults(k, d, f)
    BY <2>1 DEF Assembly
  <2>3. (\E f \in Fields(k) \ Flags : x \in FieldFaults(k, d, f)) <=> \E f \in F : x \in faults[f]
    BY <1>0 DEF Assembly
  <2> QED BY <2>2, <2>3
<1>4. ASSUME b.status = "built"
      PROVE  /\ DOMAIN p = F \cup DOMAIN typed
             /\ \A f \in F : FieldFaults(k, d, f) = {} /\ p[f] = parts[f].val[1]
             /\ \A f \in DOMAIN typed \ F : p[f] = typed[f]
             /\ \A f \in DOMAIN p \cap Lists : Len(p[f]) = Len(d[f])
             /\ TypedInAscii => \A f \in F : PartStored(k, d, f, p[f])
  <2>1. p = whole
    BY <1>2, <1>4 DEF Some
  <2>2. /\ DOMAIN p = F \cup DOMAIN typed
        /\ \A f \in F : p[f] = parts[f].val[1]
        /\ \A f \in DOMAIN typed \ F : p[f] = typed[f]
    BY <2>1 DEF Whole
  <2>3. \A f \in F : FieldFaults(k, d, f) = {}
    BY <1>0, <1>2, <1>4
  <2> HIDE DEF p
  <2>4. ASSUME NEW f \in DOMAIN p \cap Lists PROVE Len(p[f]) = Len(d[f])
    <3>1. f \in F \cap Lists
      BY <2>2 DEF Assembly
    <3>2. Len(parts[f].val[1]) = Len(d[f])
      BY <3>1, <2>3 DEF PartBuilt, Assembly
    <3> QED BY <3>1, <3>2, <2>2
  <2>5. ASSUME TypedInAscii, NEW f \in F PROVE PartStored(k, d, f, p[f])
    BY <2>2, <2>3, <2>5 DEF PartBuilt, Assembly
  <2> QED BY <2>2, <2>3, <2>4, <2>5
<1> QED BY <1>2, <1>3, <1>4 DEF b

LEMMA Unjudged ==
  ASSUME NEW k, NEW d,
         NEW f \in {"creation_year", "bpm", "work_type", "genre", "sub_genre", "record_year",
                    "editorial", "release_date"}
  PROVE  FieldFaults(k, d, f) = {}
<1>1. \A v : ~FaultyValue(k, f, v)
  BY DEF FaultyValue, IdKinds
<1>2. FaultyEntries(k, d, f) = {}
  BY <1>1 DEF FaultyEntries
<1> QED BY <1>2 DEF FieldFaults, Lists

\* What build() makes of a draft of a kind that misses no mandatory field.
Reports(k, d, b) ==
  /\ b.status \in {"fields", "built"}
  /\ \A x : Holds(b.errors, x) <=> x \in Faults(k, d)

KeepsEntries(k, d, p) ==
  /\ \A f \in DOMAIN p \cap Lists : Len(p[f]) = Len(d[f])
  /\ k = "Release" => \A i \in DOMAIN p.tracks :
       p.tracks[i].number = IF d.tracks[i].number = None THEN i ELSE d.tracks[i].number[1]
  /\ k = "Recording" => \A i \in DOMAIN p.performers :
       p.performers[i].instruments = d.performers[i].instruments

\* The fields whose inputs build() parses or bounds; the others come in typed.
BuiltFields(k) ==
  Fields(k) \ (Flags \cup {"creation_year", "bpm", "work_type", "genre", "sub_genre",
                          "record_year", "editorial", "release_date"})

TypedAlong(k, d, p) ==
  CASE k = "MusicalWork" ->
         /\ p.creation_year = d.creation_year /\ p.bpm = d.bpm /\ p.classical_info = None
         /\ p.work_type = IF d.work_type = None THEN Original ELSE d.work_type[1]
    [] k = "Recording" ->
         /\ p.genre = d.genre /\ p.sub_genre = d.sub_genre
         /\ p.record_year = d.record_year /\ p.bpm = d.bpm
    [] k = "Release" -> p.release_date = d.release_date[1]

\* What a payload has of the draft it was built from.
BuiltFrom(k, d, p) ==
  /\ KeepsEntries(k, d, p)
  /\ TypedAlong(k, d, p)
  /\ TypedInAscii => \A f \in BuiltFields(k) : PartStored(k, d, f, p[f])

LEMMA WorkReports ==
  ASSUME NEW d, IsDraft("MusicalWork", d), ~Missing(d, WorkMandatory)
  PROVE  /\ Reports("MusicalWork", d, BuildWork(d))
         /\ BuildWork(d).status = "built" => BuiltFrom("MusicalWork", d, BuildWork(d).payload[1])
<1> DEFINE order == <<"iswc", "title", "creators", "samples", "offchain_extension">>
           parts ==
             [iswc |-> BuildCode("iswc", 0, "iswc", d.iswc[1]),
             title |-> BuildText("title", 0, d.title[1]),
             creators |-> BuildList("creators", d.creators, BuildCreator),
             samples |-> BuildList("samples", d.samples,
             LAMBDA ref, i : BuildReference("samples", i, "iswc", ref)),
             offchain_extension |-> BuildOffchain(d.offchain_extension)]
           typed ==
             [creation_year |-> d.creation_year, bpm |-> d.bpm, instrumental |-> d.instrumental,
             explicit_lyrics |-> d.explicit_lyrics, classical_info |-> None,
             work_type |-> IF d.work_type = None THEN Original ELSE d.work_type[1]]
           F == {"iswc", "title", "creators", "samples", "offchain_extension"}
           b == Conclude(order, parts, typed)
<1>1. BuildWork(d) = b
  BY DEF BuildWork
<1>2. ASSUME NEW i \in DOMAIN WorkMandatory PROVE d[WorkMandatory[i]] # <<>>
  BY DEF Missing
<1>3. /\ d["iswc"] # <<>>
      /\ d["title"] # <<>>
      /\ d["creators"] # <<>>
  <2>1. d["iswc"] # <<>>
    <3>1. 1 \in DOMAIN WorkMandatory /\ WorkMandatory[1] = "iswc"
      BY DEF WorkMandatory
    <3> QED BY <3>1, <1>2
  <2>2. d["title"] # <<>>
    <3>1. 2 \in DOMAIN WorkMandatory /\ WorkMandatory[2] = "title"
      BY DEF WorkMandatory
    <3> QED BY <3>1, <1>2
  <2>3. d["creators"] # <<>>
    <3>1. 3 \in DOMAIN WorkMandatory /\ WorkMandatory[3] = "creators"
      BY DEF WorkMandatory
    <3> QED BY <3>1, <1>2
  <2> QED BY <2>1, <2>2, <2>3
<1>4. DOMAIN d = Fields("MusicalWork") /\ F \subseteq Fields("MusicalWork")
  BY DEF IsDraft, Fields
<1>5. PartBuilt(parts["iswc"], "MusicalWork", d, "iswc")
  <2>1. PartBuilt(BuildCode("iswc", 0, "iswc", d["iswc"][1]), "MusicalWork", d, "iswc")
    BY <1>4, <1>3, CodePart
  <2>2. parts["iswc"] = BuildCode("iswc", 0, "iswc", d["iswc"][1])
    OBVIOUS
  <2> HIDE DEF parts
  <2> QED BY <2>1, <2>2
<1>6. PartBuilt(parts["title"], "MusicalWork", d, "title")
  <2>1. PartBuilt(BuildText("title", 0, d["title"][1]), "MusicalWork", d, "title")
    BY <1>4, <1>3, TextPart
  <2>2. parts["title"] = BuildText("title", 0, d["title"][1])
    OBVIOUS
  <2> HIDE DEF parts
  <2> QED BY <2>1, <2>2
<1>7. PartBuilt(parts["creators"], "MusicalWork", d, "creators")
  <2>1. PartBuilt(BuildList("creators", d["creators"], BuildCreator), "MusicalWork", d, "creators")
    BY <1>4, CreatorsPart
  <2>2. parts["creators"] = BuildList("creators", d["creators"], BuildCreator)
    OBVIOUS
  <2> HIDE DEF parts
  <2> QED BY <2>1, <2>2
<1>8. PartBuilt(parts["samples"], "MusicalWork", d, "samples")
  <2>1. PartBuilt(BuildList("samples", d["samples"],
              LAMBDA ref, i : BuildReference("samples", i, "iswc", ref)),
                    "MusicalWork", d, "samples")
    BY <1>4, SamplesPart
  <2>2. parts["samples"] = BuildList("samples", d["samples"],
              LAMBDA ref, i : BuildReference("samples", i, "iswc", ref))
    OBVIOUS
  <2> HIDE DEF parts
  <2> QED BY <2>1, <2>2
<1>9. PartBuilt(parts["offchain_extension"], "MusicalWork", d, "offchain_extension")
  <2>1. PartBuilt(BuildOffchain(d["offchain_extension"]), "MusicalWork", d, "offchain_extension")
    BY <1>4, OffchainPart
  <2>2. parts["offchain_extension"] = BuildOffchain(d["offchain_extension"])
    OBVIOUS
  <2> HIDE DEF parts
  <2> QED BY <2>1, <2>2
<1>10. DOMAIN parts = F /\ DOMAIN typed \cap Lists = {}
  <2>1. DOMAIN parts = F
    OBVIOUS
  <2>2. DOMAIN typed \cap Lists = {}
    BY DEF Lists
  <2> QED BY <2>1, <2>2
<1>11. order \in Seq(F) /\ \A f \in F : \E i \in DOMAIN order : order[i] = f
  <2>1. order \in Seq(F)
    OBVIOUS
  <2>2. /\ 1 \in DOMAIN order /\ order[1] = "iswc"
        /\ 2 \in DOMAIN order /\ order[2] = "title"
        /\ 3 \in DOMAIN order /\ order[3] = "creators"
        /\ 4 \in DOMAIN order /\ order[4] = "samples"
        /\ 5 \in DOMAIN order /\ order[5] = "offchain_extension"
    OBVIOUS
  <2> HIDE DEF order
  <2> QED BY <2>1, <2>2
<1>12. /\ F \subseteq Fields("MusicalWork") \ Flags
       /\ \A f \in Fields("MusicalWork") \ Flags : f \notin F =>
             FieldFaults("MusicalWork", d, f) = {}
  <2>1. F \subseteq Fields("MusicalWork") \ Flags
    BY <1>4 DEF Flags
  <2>2. ASSUME NEW f \in Fields("MusicalWork") \ Flags, f \notin F
        PROVE FieldFaults("MusicalWork", d, f) = {}
    <3>1. f \in {"creation_year", "bpm", "work_type"}
      BY <2>2 DEF Fields, Flags
    <3> QED BY <3>1, Unjudged
  <2> QED BY <2>1, <2>2
<1>30. /\ \A f \in {"creation_year", "bpm", "work_type", "classical_info"} : f \in DOMAIN typed \ F
       /\ typed.creation_year = d.creation_year /\ typed.bpm = d.bpm
       /\ typed.classical_info = None
       /\ typed.work_type = IF d.work_type = None THEN Original ELSE d.work_type[1]
  OBVIOUS
<1>31. F = BuiltFields("MusicalWork")
  BY DEF BuiltFields, Fields, Flags
<1> HIDE DEF parts, typed, order
<1>13. \A f \in F : PartBuilt(parts[f], "MusicalWork", d, f)
  <2>1. PartBuilt(parts["iswc"], "MusicalWork", d, "iswc")
    BY <1>5
  <2>2. PartBuilt(parts["title"], "MusicalWork", d, "title")
    BY <1>6
  <2>3. PartBuilt(parts["creators"], "MusicalWork", d, "creators")
    BY <1>7
  <2>4. PartBuilt(parts["samples"], "MusicalWork", d, "samples")
    BY <1>8
  <2>5. PartBuilt(parts["offchain_extension"], "MusicalWork", d, "offchain_extension")
    BY <1>9
  <2> QED BY <2>1, <2>2, <2>3, <2>4, <2>5
<1> DEFINE p == b.payload[1]
<1>15. /\ "iswc" \in F /\ "title" \in F /\ "creators" \in F /\ "samples" \in F
       /\ "offchain_extension" \in F
  OBVIOUS
<1>16. Assembly("MusicalWork", d, F, order, parts, typed)
  BY <1>4, <1>10, <1>11, <1>12, <1>13 DEF Assembly
<1> HIDE DEF F
<1>17. /\ b.status \in {"fields", "built"}
       /\ \A x : Holds(b.errors, x) <=> x \in Faults("MusicalWork", d)
       /\ b.status = "built" =>
            /\ \A f \in F : FieldFaults("MusicalWork", d, f) = {} /\ p[f] = parts[f].val[1]
            /\ \A f \in DOMAIN typed \ F : p[f] = typed[f]
            /\ \A f \in DOMAIN p \cap Lists : Len(p[f]) = Len(d[f])
            /\ TypedInAscii => \A f \in F : PartStored("MusicalWork", d, f, p[f])
  BY <1>16, Assembled
<1> HIDE DEF b
<1>18. b.status = "built" => KeepsEntries("MusicalWork", d, p)
  BY <1>17 DEF KeepsEntries
<1>32. ASSUME b.status = "built" PROVE TypedAlong("MusicalWork", d, p)
  <2> HIDE DEF p
  <2> QED BY <1>17, <1>30, <1>32 DEF TypedAlong
<1>33. b.status = "built" => BuiltFrom("MusicalWork", d, p)
  BY <1>17, <1>18, <1>31, <1>32 DEF BuiltFrom
<1> QED BY <1>1, <1>17, <1>33 DEF Reports

LEMMA RecordingReports ==
  ASSUME NEW d, IsDraft("Recording", d), ~Missing(d, RecordingMandatory)
  PROVE  /\ Reports("Recording", d, BuildRecording(d))
         /\ BuildRecording(d).status = "built" =>
               BuiltFrom("Recording", d, BuildRecording(d).payload[1])
<1> DEFINE order == <<"isrc", "title", "title_aliases", "artist", "work", "performers", "producers",
             "contributors", "featuring", "places", "offchain_extension">>
           parts ==
             [isrc |-> BuildCode("isrc", 0, "isrc", d.isrc[1]),
             title |-> BuildText("title", 0, d.title[1]),
             title_aliases |-> BuildTextList("title_aliases", d.title_aliases),
             artist |-> ParseParty("artist", 0, d.artist[1]),
             work |-> BuildReference("work", 0, "iswc", d.work[1]),
             performers |-> BuildList("performers", d.performers, ParsePerformer),
             producers |-> BuildList("producers", d.producers,
             LAMBDA raw, i : BuildCode("producers", i, "isni", raw)),
             contributors |-> ParsePartyList("contributors", d.contributors),
             featuring |-> ParsePartyList("featuring", d.featuring),
             places |-> BuildPlaces(d.places),
             offchain_extension |-> BuildOffchain(d.offchain_extension)]
           typed ==
             [genre |-> d.genre, sub_genre |-> d.sub_genre,
                   record_year |-> d.record_year, bpm |-> d.bpm]
           F == {"isrc", "title", "title_aliases", "artist", "work", "performers",
                 "producers", "contributors", "featuring", "places", "offchain_extension"}
           b == Conclude(order, parts, typed)
<1>1. BuildRecording(d) = b
  BY DEF BuildRecording
<1>2. ASSUME NEW i \in DOMAIN RecordingMandatory PROVE d[RecordingMandatory[i]] # <<>>
  BY DEF Missing
<1>3. /\ d["isrc"] # <<>>
      /\ d["title"] # <<>>
      /\ d["artist"] # <<>>
      /\ d["work"] # <<>>
  <2>1. d["isrc"] # <<>>
    <3>1. 1 \in DOMAIN RecordingMandatory /\ RecordingMandatory[1] = "isrc"
      BY DEF RecordingMandatory
    <3> QED BY <3>1, <1>2
  <2>2. d["title"] # <<>>
    <3>1. 2 \in DOMAIN RecordingMandatory /\ RecordingMandatory[2] = "title"
      BY DEF RecordingMandatory
    <3> QED BY <3>1, <1>2
  <2>3. d["artist"] # <<>>
    <3>1. 3 \in DOMAIN RecordingMandatory /\ RecordingMandatory[3] = "artist"
      BY DEF RecordingMandatory
    <3> QED BY <3>1, <1>2
  <2>4. d["work"] # <<>>
    <3>1. 4 \in DOMAIN RecordingMandatory /\ RecordingMandatory[4] = "work"
      BY DEF RecordingMandatory
    <3> QED BY <3>1, <1>2
  <2> QED BY <2>1, <2>2, <2>3, <2>4
<1>4. DOMAIN d = Fields("Recording") /\ F \subseteq Fields("Recording")
  BY DEF IsDraft, Fields
<1>5. PartBuilt(parts["isrc"], "Recording", d, "isrc")
  <2>1. PartBuilt(BuildCode("isrc", 0, "isrc", d["isrc"][1]), "Recording", d, "isrc")
    BY <1>4, <1>3, CodePart
  <2>2. parts["isrc"] = BuildCode("isrc", 0, "isrc", d["isrc"][1])
    OBVIOUS
  <2> HIDE DEF parts
  <2> QED BY <2>1, <2>2
<1>6. PartBuilt(parts["title"], "Recording", d, "title")
  <2>1. PartBuilt(BuildText("title", 0, d["title"][1]), "Recording", d, "title")
    BY <1>4, <1>3, TextPart
  <2>2. parts["title"] = BuildText("title", 0, d["title"][1])
    OBVIOUS
  <2> HIDE DEF parts
  <2> QED BY <2>1, <2>2
<1>7. PartBuilt(parts["title_aliases"], "Recording", d, "title_aliases")
  <2>1. PartBuilt(BuildTextList("title_aliases", d["title_aliases"]),
              "Recording", d, "title_aliases")
    BY <1>4, TextsPart
  <2>2. parts["title_aliases"] = BuildTextList("title_aliases", d["title_aliases"])
    OBVIOUS
  <2> HIDE DEF parts
  <2> QED BY <2>1, <2>2
<1>8. PartBuilt(parts["artist"], "Recording", d, "artist")
  <2>1. PartBuilt(ParseParty("artist", 0, d["artist"][1]), "Recording", d, "artist")
    BY <1>4, <1>3, ArtistPart
  <2>2. parts["artist"] = ParseParty("artist", 0, d["artist"][1])
    OBVIOUS
  <2> HIDE DEF parts
  <2> QED BY <2>1, <2>2
<1>9. PartBuilt(parts["work"], "Recording", d, "work")
  <2>1. PartBuilt(BuildReference("work", 0, "iswc", d["work"][1]), "Recording", d, "work")
    BY <1>4, <1>3, WorkPart
  <2>2. parts["work"] = BuildReference("work", 0, "iswc", d["work"][1])
    OBVIOUS
  <2> HIDE DEF parts
  <2> QED BY <2>1, <2>2
<1>10. /\ PartBuilt(parts["performers"], "Recording", d, "performers")
       /\ FieldFaults("Recording", d, "performers") = {} =>
            \A i \in DOMAIN parts["performers"].val[1] :
              parts["performers"].val[1][i].instruments = d["performers"][i].instruments
  <2> DEFINE part == BuildList("performers", d["performers"], ParsePerformer)
  <2>1. /\ PartBuilt(part, "Recording", d, "performers")
        /\ FieldFaults("Recording", d, "performers") = {} =>
             \A i \in DOMAIN part.val[1] :
                   part.val[1][i].instruments = d["performers"][i].instruments
    BY <1>4, PerformersPart
  <2>2. parts["performers"] = part
    OBVIOUS
  <2> HIDE DEF parts, part
  <2> QED BY <2>1, <2>2
<1>11. PartBuilt(parts["producers"], "Recording", d, "producers")
  <2>1. PartBuilt(BuildList("producers", d["producers"],
              LAMBDA raw, i : BuildCode("producers", i, "isni", raw)), "Recording", d, "producers")
    BY <1>4, IsnisPart
  <2>2. parts["producers"] = BuildList("producers", d["producers"],
              LAMBDA raw, i : BuildCode("producers", i, "isni", raw))
    OBVIOUS
  <2> HIDE DEF parts
  <2> QED BY <2>1, <2>2
<1>12. PartBuilt(parts["contributors"], "Recording", d, "contributors")
  <2>1. PartBuilt(ParsePartyList("contributors", d["contributors"]), "Recording", d, "contributors")
    BY <1>4, PartiesPart
  <2>2. parts["contributors"] = ParsePartyList("contributors", d["contributors"])
    OBVIOUS
  <2> HIDE DEF parts
  <2> QED BY <2>1, <2>2
<1>13. PartBuilt(parts["featuring"], "Recording", d, "featuring")
  <2>1. PartBuilt(ParsePartyList("featuring", d["featuring"]), "Recording", d, "featuring")
    BY <1>4, PartiesPart
  <2>2. parts["featuring"] = ParsePartyList("featuring", d["featuring"])
    OBVIOUS
  <2> HIDE DEF parts
  <2> QED BY <2>1, <2>2
<1>14. PartBuilt(parts["places"], "Recording", d, "places")
  <2>1. PartBuilt(BuildPlaces(d["places"]), "Recording", d, "places")
    BY <1>4, PlacesPart
  <2>2. parts["places"] = BuildPlaces(d["places"])
    OBVIOUS
  <2> HIDE DEF parts
  <2> QED BY <2>1, <2>2
<1>15. PartBuilt(parts["offchain_extension"], "Recording", d, "offchain_extension")
  <2>1. PartBuilt(BuildOffchain(d["offchain_extension"]), "Recording", d, "offchain_extension")
    BY <1>4, OffchainPart
  <2>2. parts["offchain_extension"] = BuildOffchain(d["offchain_extension"])
    OBVIOUS
  <2> HIDE DEF parts
  <2> QED BY <2>1, <2>2
<1>16. DOMAIN parts = F /\ DOMAIN typed \cap Lists = {}
  <2>1. DOMAIN parts = F
    OBVIOUS
  <2>2. DOMAIN typed \cap Lists = {}
    BY DEF Lists
  <2> QED BY <2>1, <2>2
<1>17. order \in Seq(F) /\ \A f \in F : \E i \in DOMAIN order : order[i] = f
  <2>1. order \in Seq(F)
    OBVIOUS
  <2>2. /\ 1 \in DOMAIN order /\ order[1] = "isrc"
        /\ 2 \in DOMAIN order /\ order[2] = "title"
        /\ 3 \in DOMAIN order /\ order[3] = "title_aliases"
        /\ 4 \in DOMAIN order /\ order[4] = "artist"
        /\ 5 \in DOMAIN order /\ order[5] = "work"
        /\ 6 \in DOMAIN order /\ order[6] = "performers"
        /\ 7 \in DOMAIN order /\ order[7] = "producers"
        /\ 8 \in DOMAIN order /\ order[8] = "contributors"
        /\ 9 \in DOMAIN order /\ order[9] = "featuring"
        /\ 10 \in DOMAIN order /\ order[10] = "places"
        /\ 11 \in DOMAIN order /\ order[11] = "offchain_extension"
    OBVIOUS
  <2> HIDE DEF order
  <2> QED BY <2>1, <2>2
<1>18. /\ F \subseteq Fields("Recording") \ Flags
       /\ \A f \in Fields("Recording") \ Flags : f \notin F => FieldFaults("Recording", d, f) = {}
  <2>1. F \subseteq Fields("Recording") \ Flags
    BY <1>4 DEF Flags
  <2>2. ASSUME NEW f \in Fields("Recording") \ Flags, f \notin F
        PROVE FieldFaults("Recording", d, f) = {}
    <3>1. f \in {"genre", "sub_genre", "record_year", "bpm"}
      BY <2>2 DEF Fields, Flags
    <3> QED BY <3>1, Unjudged
  <2> QED BY <2>1, <2>2
<1>30. /\ \A f \in {"genre", "sub_genre", "record_year", "bpm"} : f \in DOMAIN typed \ F
       /\ typed.genre = d.genre /\ typed.sub_genre = d.sub_genre
       /\ typed.record_year = d.record_year /\ typed.bpm = d.bpm
  OBVIOUS
<1>31. F = BuiltFields("Recording")
  BY DEF BuiltFields, Fields, Flags
<1> HIDE DEF parts, typed, order
<1>19. \A f \in F : PartBuilt(parts[f], "Recording", d, f)
  <2>1. PartBuilt(parts["isrc"], "Recording", d, "isrc")
    BY <1>5
  <2>2. PartBuilt(parts["title"], "Recording", d, "title")
    BY <1>6
  <2>3. PartBuilt(parts["title_aliases"], "Recording", d, "title_aliases")
    BY <1>7
  <2>4. PartBuilt(parts["artist"], "Recording", d, "artist")
    BY <1>8
  <2>5. PartBuilt(parts["work"], "Recording", d, "work")
    BY <1>9
  <2>6. PartBuilt(parts["performers"], "Recording", d, "performers")
    BY <1>10
  <2>7. PartBuilt(parts["producers"], "Recording", d, "producers")
    BY <1>11
  <2>8. PartBuilt(parts["contributors"], "Recording", d, "contributors")
    BY <1>12
  <2>9. PartBuilt(parts["featuring"], "Recording", d, "featuring")
    BY <1>13
  <2>10. PartBuilt(parts["places"], "Recording", d, "places")
    BY <1>14
  <2>11. PartBuilt(parts["offchain_extension"], "Recording", d, "offchain_extension")
    BY <1>15
  <2> QED BY <2>1, <2>2, <2>3, <2>4, <2>5, <2>6, <2>7, <2>8, <2>9, <2>10, <2>11
<1> DEFINE p == b.payload[1]
<1>21. /\ "isrc" \in F /\ "title" \in F /\ "title_aliases" \in F /\ "artist" \in F
       /\ "work" \in F /\ "performers" \in F /\ "producers" \in F /\ "contributors" \in F
       /\ "featuring" \in F /\ "places" \in F /\ "offchain_extension" \in F
  OBVIOUS
<1>22. Assembly("Recording", d, F, order, parts, typed)
  BY <1>4, <1>16, <1>17, <1>18, <1>19 DEF Assembly
<1> HIDE DEF F
<1>23. /\ b.status \in {"fields", "built"}
       /\ \A x : Holds(b.errors, x) <=> x \in Faults("Recording", d)
       /\ b.status = "built" =>
            /\ \A f \in F : FieldFaults("Recording", d, f) = {} /\ p[f] = parts[f].val[1]
            /\ \A f \in DOMAIN typed \ F : p[f] = typed[f]
            /\ \A f \in DOMAIN p \cap Lists : Len(p[f]) = Len(d[f])
            /\ TypedInAscii => \A f \in F : PartStored("Recording", d, f, p[f])
  BY <1>22, Assembled
<1> HIDE DEF b
<1>24. ASSUME b.status = "built" PROVE KeepsEntries("Recording", d, p)
  <2>1. /\ FieldFaults("Recording", d, "performers") = {}
        /\ p["performers"] = parts["performers"].val[1]
    BY <1>23, <1>24, <1>21
  <2> HIDE DEF p
  <2>2. \A i \in DOMAIN p["performers"] :
             p["performers"][i].instruments = d["performers"][i].instruments
    BY <2>1, <1>10
  <2> QED BY <2>2, <1>23, <1>24 DEF KeepsEntries, p
<1>32. ASSUME b.status = "built" PROVE TypedAlong("Recording", d, p)
  <2> HIDE DEF p
  <2> QED BY <1>23, <1>30, <1>32 DEF TypedAlong
<1>33. b.status = "built" => BuiltFrom("Recording", d, p)
  BY <1>23, <1>24, <1>31, <1>32 DEF BuiltFrom
<1> QED BY <1>1, <1>23, <1>33 DEF Reports

LEMMA ReleaseReports ==
  ASSUME NEW d, IsDraft("Release", d), ~Missing(d, ReleaseMandatory)
  PROVE  /\ Reports("Release", d, BuildRelease(d))
         /\ BuildRelease(d).status = "built" =>
               BuiltFrom("Release", d, BuildRelease(d).payload[1])
<1> DEFINE order == <<"upc", "title", "title_aliases", "artist", "featuring", "tracks", "producers",
             "distributor_name", "cover_contributors", "offchain_extension">>
           parts ==
             [upc |-> BuildCode("upc", 0, "upc", d.upc[1]),
             title |-> BuildText("title", 0, d.title[1]),
             title_aliases |-> BuildTextList("title_aliases", d.title_aliases),
             artist |-> ParseParty("artist", 0, d.artist[1]),
             featuring |-> ParsePartyList("featuring", d.featuring),
             tracks |-> BuildTracks(d.tracks),
             producers |-> BuildList("producers", d.producers, BuildProducer),
             distributor_name |-> BuildText("distributor_name", 0, d.distributor_name[1]),
             cover_contributors |-> BuildTextList("cover_contributors", d.cover_contributors),
             offchain_extension |-> BuildOffchain(d.offchain_extension)]
           typed ==
             [release_date |-> d.release_date[1]]
           F == {"upc", "title", "title_aliases", "artist", "featuring", "tracks",
                 "producers", "distributor_name", "cover_contributors",
                 "offchain_extension"}
           b == Conclude(order, parts, typed)
<1>1. BuildRelease(d) = b
  BY DEF BuildRelease
<1>2. ASSUME NEW i \in DOMAIN ReleaseMandatory PROVE d[ReleaseMandatory[i]] # <<>>
  BY DEF Missing
<1>3. /\ d["upc"] # <<>>
      /\ d["title"] # <<>>
      /\ d["artist"] # <<>>
      /\ d["editorial"] # <<>>
      /\ d["release_date"] # <<>>
      /\ d["distributor_name"] # <<>>
      /\ d["tracks"] # <<>>
  <2>1. d["upc"] # <<>>
    <3>1. 1 \in DOMAIN ReleaseMandatory /\ ReleaseMandatory[1] = "upc"
      BY DEF ReleaseMandatory
    <3> QED BY <3>1, <1>2
  <2>2. d["title"] # <<>>
    <3>1. 2 \in DOMAIN ReleaseMandatory /\ ReleaseMandatory[2] = "title"
      BY DEF ReleaseMandatory
    <3> QED BY <3>1, <1>2
  <2>3. d["artist"] # <<>>
    <3>1. 3 \in DOMAIN ReleaseMandatory /\ ReleaseMandatory[3] = "artist"
      BY DEF ReleaseMandatory
    <3> QED BY <3>1, <1>2
  <2>4. d["editorial"] # <<>>
    <3>1. 4 \in DOMAIN ReleaseMandatory /\ ReleaseMandatory[4] = "editorial"
      BY DEF ReleaseMandatory
    <3> QED BY <3>1, <1>2
  <2>5. d["release_date"] # <<>>
    <3>1. 5 \in DOMAIN ReleaseMandatory /\ ReleaseMandatory[5] = "release_date"
      BY DEF ReleaseMandatory
    <3> QED BY <3>1, <1>2
  <2>6. d["distributor_name"] # <<>>
    <3>1. 6 \in DOMAIN ReleaseMandatory /\ ReleaseMandatory[6] = "distributor_name"
      BY DEF ReleaseMandatory
    <3> QED BY <3>1, <1>2
  <2>7. d["tracks"] # <<>>
    <3>1. 7 \in DOMAIN ReleaseMandatory /\ ReleaseMandatory[7] = "tracks"
      BY DEF ReleaseMandatory
    <3> QED BY <3>1, <1>2
  <2> QED BY <2>1, <2>2, <2>3, <2>4, <2>5, <2>6, <2>7
<1>4. DOMAIN d = Fields("Release") /\ F \subseteq Fields("Release")
  BY DEF IsDraft, Fields
<1>5. PartBuilt(parts["upc"], "Release", d, "upc")
  <2>1. PartBuilt(BuildCode("upc", 0, "upc", d["upc"][1]), "Release", d, "upc")
    BY <1>4, <1>3, CodePart
  <2>2. parts["upc"] = BuildCode("upc", 0, "upc", d["upc"][1])
    OBVIOUS
  <2> HIDE DEF parts
  <2> QED BY <2>1, <2>2
<1>6. PartBuilt(parts["title"], "Release", d, "title")
  <2>1. PartBuilt(BuildText("title", 0, d["title"][1]), "Release", d, "title")
    BY <1>4, <1>3, TextPart
  <2>2. parts["title"] = BuildText("title", 0, d["title"][1])
    OBVIOUS
  <2> HIDE DEF parts
  <2> QED BY <2>1, <2>2
<1>7. PartBuilt(parts["title_aliases"], "Release", d, "title_aliases")
  <2>1. PartBuilt(BuildTextList("title_aliases", d["title_aliases"]), "Release", d, "title_aliases")
    BY <1>4, TextsPart
  <2>2. parts["title_aliases"] = BuildTextList("title_aliases", d["title_aliases"])
    OBVIOUS
  <2> HIDE DEF parts
  <2> QED BY <2>1, <2>2
<1>8. PartBuilt(parts["artist"], "Release", d, "artist")
  <2>1. PartBuilt(ParseParty("artist", 0, d["artist"][1]), "Release", d, "artist")
    BY <1>4, <1>3, ArtistPart
  <2>2. parts["artist"] = ParseParty("artist", 0, d["artist"][1])
    OBVIOUS
  <2> HIDE DEF parts
  <2> QED BY <2>1, <2>2
<1>9. PartBuilt(parts["featuring"], "Release", d, "featuring")
  <2>1. PartBuilt(ParsePartyList("featuring", d["featuring"]), "Release", d, "featuring")
    BY <1>4, PartiesPart
  <2>2. parts["featuring"] = ParsePartyList("featuring", d["featuring"])
    OBVIOUS
  <2> HIDE DEF parts
  <2> QED BY <2>1, <2>2
<1>10. /\ PartBuilt(parts["tracks"], "Release", d, "tracks")
       /\ FieldFaults("Release", d, "tracks") = {} =>
            \A i \in DOMAIN parts["tracks"].val[1] :
              parts["tracks"].val[1][i].number =
                IF d["tracks"][i].number = None THEN i ELSE d["tracks"][i].number[1]
  <2> DEFINE part == BuildTracks(d["tracks"])
  <2>1. /\ PartBuilt(part, "Release", d, "tracks")
        /\ FieldFaults("Release", d, "tracks") = {} =>
             \A i \in DOMAIN part.val[1] :
               part.val[1][i].number =
                   IF d["tracks"][i].number = None THEN i ELSE d["tracks"][i].number[1]
    BY <1>4, TracksPart
  <2>2. parts["tracks"] = part
    OBVIOUS
  <2> HIDE DEF parts, part
  <2> QED BY <2>1, <2>2
<1>11. PartBuilt(parts["producers"], "Release", d, "producers")
  <2>1. PartBuilt(BuildList("producers", d["producers"], BuildProducer), "Release", d, "producers")
    BY <1>4, ProducersPart
  <2>2. parts["producers"] = BuildList("producers", d["producers"], BuildProducer)
    OBVIOUS
  <2> HIDE DEF parts
  <2> QED BY <2>1, <2>2
<1>12. PartBuilt(parts["distributor_name"], "Release", d, "distributor_name")
  <2>1. PartBuilt(BuildText("distributor_name", 0, d["distributor_name"][1]), "Release", d, "distributor_name")
    BY <1>4, <1>3, TextPart
  <2>2. parts["distributor_name"] = BuildText("distributor_name", 0, d["distributor_name"][1])
    OBVIOUS
  <2> HIDE DEF parts
  <2> QED BY <2>1, <2>2
<1>13. PartBuilt(parts["cover_contributors"], "Release", d, "cover_contributors")
  <2>1. PartBuilt(BuildTextList("cover_contributors", d["cover_contributors"]),
              "Release", d, "cover_contributors")
    BY <1>4, TextsPart
  <2>2. parts["cover_contributors"] = BuildTextList("cover_contributors", d["cover_contributors"])
    OBVIOUS
  <2> HIDE DEF parts
  <2> QED BY <2>1, <2>2
<1>14. PartBuilt(parts["offchain_extension"], "Release", d, "offchain_extension")
  <2>1. PartBuilt(BuildOffchain(d["offchain_extension"]), "Release", d, "offchain_extension")
    BY <1>4, OffchainPart
  <2>2. parts["offchain_extension"] = BuildOffchain(d["offchain_extension"])
    OBVIOUS
  <2> HIDE DEF parts
  <2> QED BY <2>1, <2>2
<1>15. DOMAIN parts = F /\ DOMAIN typed \cap Lists = {}
  <2>1. DOMAIN parts = F
    OBVIOUS
  <2>2. DOMAIN typed \cap Lists = {}
    BY DEF Lists
  <2> QED BY <2>1, <2>2
<1>16. order \in Seq(F) /\ \A f \in F : \E i \in DOMAIN order : order[i] = f
  <2>1. order \in Seq(F)
    OBVIOUS
  <2>2. /\ 1 \in DOMAIN order /\ order[1] = "upc"
        /\ 2 \in DOMAIN order /\ order[2] = "title"
        /\ 3 \in DOMAIN order /\ order[3] = "title_aliases"
        /\ 4 \in DOMAIN order /\ order[4] = "artist"
        /\ 5 \in DOMAIN order /\ order[5] = "featuring"
        /\ 6 \in DOMAIN order /\ order[6] = "tracks"
        /\ 7 \in DOMAIN order /\ order[7] = "producers"
        /\ 8 \in DOMAIN order /\ order[8] = "distributor_name"
        /\ 9 \in DOMAIN order /\ order[9] = "cover_contributors"
        /\ 10 \in DOMAIN order /\ order[10] = "offchain_extension"
    OBVIOUS
  <2> HIDE DEF order
  <2> QED BY <2>1, <2>2
<1>17. /\ F \subseteq Fields("Release") \ Flags
       /\ \A f \in Fields("Release") \ Flags : f \notin F => FieldFaults("Release", d, f) = {}
  <2>1. F \subseteq Fields("Release") \ Flags
    BY <1>4 DEF Flags
  <2>2. ASSUME NEW f \in Fields("Release") \ Flags, f \notin F
        PROVE FieldFaults("Release", d, f) = {}
    <3>1. f \in {"editorial", "release_date"}
      BY <2>2 DEF Fields, Flags
    <3> QED BY <3>1, Unjudged
  <2> QED BY <2>1, <2>2
<1>30. /\ "release_date" \in DOMAIN typed \ F
       /\ typed.release_date = d.release_date[1]
  OBVIOUS
<1>31. F = BuiltFields("Release")
  BY DEF BuiltFields, Fields, Flags
<1> HIDE DEF parts, typed, order
<1>18. \A f \in F : PartBuilt(parts[f], "Release", d, f)
  <2>1. PartBuilt(parts["upc"], "Release", d, "upc")
    BY <1>5
  <2>2. PartBuilt(parts["title"], "Release", d, "title")
    BY <1>6
  <2>3. PartBuilt(parts["title_aliases"], "Release", d, "title_aliases")
    BY <1>7
  <2>4. PartBuilt(parts["artist"], "Release", d, "artist")
    BY <1>8
  <2>5. PartBuilt(parts["featuring"], "Release", d, "featuring")
    BY <1>9
  <2>6. PartBuilt(parts["tracks"], "Release", d, "tracks")
    BY <1>10
  <2>7. PartBuilt(parts["producers"], "Release", d, "producers")
    BY <1>11
  <2>8. PartBuilt(parts["distributor_name"], "Release", d, "distributor_name")
    BY <1>12
  <2>9. PartBuilt(parts["cover_contributors"], "Release", d, "cover_contributors")
    BY <1>13
  <2>10. PartBuilt(parts["offchain_extension"], "Release", d, "offchain_extension")
    BY <1>14
  <2> QED BY <2>1, <2>2, <2>3, <2>4, <2>5, <2>6, <2>7, <2>8, <2>9, <2>10
<1> DEFINE p == b.payload[1]
<1>20. /\ "upc" \in F /\ "title" \in F /\ "title_aliases" \in F /\ "artist" \in F
       /\ "featuring" \in F /\ "tracks" \in F /\ "producers" \in F
       /\ "distributor_name" \in F /\ "cover_contributors" \in F
       /\ "offchain_extension" \in F
  OBVIOUS
<1>21. Assembly("Release", d, F, order, parts, typed)
  BY <1>4, <1>15, <1>16, <1>17, <1>18 DEF Assembly
<1> HIDE DEF F
<1>22. /\ b.status \in {"fields", "built"}
       /\ \A x : Holds(b.errors, x) <=> x \in Faults("Release", d)
       /\ b.status = "built" =>
            /\ \A f \in F : FieldFaults("Release", d, f) = {} /\ p[f] = parts[f].val[1]
            /\ \A f \in DOMAIN typed \ F : p[f] = typed[f]
            /\ \A f \in DOMAIN p \cap Lists : Len(p[f]) = Len(d[f])
            /\ TypedInAscii => \A f \in F : PartStored("Release", d, f, p[f])
  BY <1>21, Assembled
<1> HIDE DEF b
<1>23. ASSUME b.status = "built" PROVE KeepsEntries("Release", d, p)
  <2>1. FieldFaults("Release", d, "tracks") = {} /\ p["tracks"] = parts["tracks"].val[1]
    BY <1>22, <1>23, <1>20
  <2> HIDE DEF p
  <2>2. \A i \in DOMAIN p["tracks"] :
          p["tracks"][i].number =
              IF d["tracks"][i].number = None THEN i ELSE d["tracks"][i].number[1]
    BY <2>1, <1>10
  <2> QED BY <2>2, <1>22, <1>23 DEF KeepsEntries, p
<1>32. ASSUME b.status = "built" PROVE TypedAlong("Release", d, p)
  <2> HIDE DEF p
  <2> QED BY <1>22, <1>30, <1>32 DEF TypedAlong
<1>33. b.status = "built" => BuiltFrom("Release", d, p)
  BY <1>22, <1>23, <1>31, <1>32 DEF BuiltFrom
<1> QED BY <1>1, <1>22, <1>33 DEF Reports

LEMMA BuildReports ==
  ASSUME NEW k \in MiddsKinds, NEW d, IsDraft(k, d)
  PROVE  \/ Build(k, d).status = "missing"
         \/ /\ Reports(k, d, Build(k, d))
            /\ Build(k, d).status = "built" => BuiltFrom(k, d, Build(k, d).payload[1])
<1>0. ASSUME NEW mandatory PROVE ReportMissing(d, mandatory).status = "missing"
  BY DEF ReportMissing
<1>1. CASE k = "MusicalWork"
  <2>1. Build(k, d) = BuildWork(d)
    BY <1>1 DEF Build
  <2>2. CASE Missing(d, WorkMandatory)
    <3>1. BuildWork(d) = ReportMissing(d, WorkMandatory)
      BY <2>2 DEF BuildWork
    <3> QED BY <2>1, <3>1, <1>0
  <2>3. CASE ~Missing(d, WorkMandatory)
    BY <1>1, <2>1, <2>3, WorkReports
  <2> QED BY <2>2, <2>3
<1>2. CASE k = "Recording"
  <2>1. Build(k, d) = BuildRecording(d)
    BY <1>2 DEF Build
  <2>2. CASE Missing(d, RecordingMandatory)
    <3>1. BuildRecording(d) = ReportMissing(d, RecordingMandatory)
      BY <2>2 DEF BuildRecording
    <3> QED BY <2>1, <3>1, <1>0
  <2>3. CASE ~Missing(d, RecordingMandatory)
    BY <1>2, <2>1, <2>3, RecordingReports
  <2> QED BY <2>2, <2>3
<1>3. CASE k = "Release"
  <2>1. Build(k, d) = BuildRelease(d)
    BY <1>3 DEF Build
  <2>2. CASE Missing(d, ReleaseMandatory)
    <3>1. BuildRelease(d) = ReportMissing(d, ReleaseMandatory)
      BY <2>2 DEF BuildRelease
    <3> QED BY <2>1, <3>1, <1>0
  <2>3. CASE ~Missing(d, ReleaseMandatory)
    BY <1>3, <2>1, <2>3, ReleaseReports
  <2> QED BY <2>2, <2>3
<1> QED BY <1>1, <1>2, <1>3 DEF MiddsKinds

-----------------------------------------------------------------------------
(* The sessions of a builder.                                              *)

\* The inductive invariant: the entry of a builder's session is a draft of its
\* kind, and what it handed over is what build() makes of that draft.
DraftInv ==
  session = "builder" =>
    /\ kind \in MiddsKinds /\ focus \subseteq Fields(kind) /\ IsDraft(kind, entry)
    /\ outcome = Editing \/ outcome = Build(kind, entry)

LEMMA InitDraft == Init => DraftInv
<1> SUFFICES ASSUME Init, session = "builder" PROVE DraftInv
  BY DEF DraftInv
<1>1. InitBuilder /\ outcome = Editing
  BY DEF Init, InitWizard, InitLint, InitFixture
<1>2. kind \in MiddsKinds /\ DOMAIN Empty(kind) = Fields(kind) /\ IsDraft(kind, Empty(kind))
  BY <1>1, DraftsBegin DEF InitBuilder
<1>3. focus \subseteq Fields(kind)
  BY <1>1, <1>2 DEF InitBuilder, FieldsOf
<1>4. entry = [f \in Fields(kind) |-> IF f \in focus THEN Empty(kind)[f] ELSE Filled(kind)[f]]
  BY <1>1, <1>2 DEF InitBuilder
<1>5. IsDraft(kind, entry)
  <2>1. ASSUME NEW f \in Fields(kind) PROVE entry[f] \in FieldValues(kind, f)
    <3>1. Empty(kind)[f] \in FieldValues(kind, f) /\ Filled(kind)[f] \in FieldValues(kind, f)
      BY <1>2, FilledIsDraft DEF IsDraft
    <3>2. entry[f] = Empty(kind)[f] \/ entry[f] = Filled(kind)[f]
      BY <1>4
    <3> QED BY <3>1, <3>2
  <2>2. DOMAIN entry = Fields(kind)
    BY <1>4
  <2> QED BY <2>1, <2>2 DEF IsDraft
<1> QED BY <1>1, <1>2, <1>3, <1>5 DEF DraftInv

\* A builder's outcome is never that of a form.
LEMMA BuilderOutcomes ==
  ASSUME DraftInv, session = "builder"
  PROVE  outcome.status \notin {"rejected", "valid"}
<1>1. CASE outcome = Editing
  BY <1>1 DEF Editing
<1>2. CASE outcome = Build(kind, entry)
  <2>1. kind \in MiddsKinds /\ IsDraft(kind, entry)
    BY DEF DraftInv
  <2>2. outcome.status \in {"missing", "fields", "built"}
    BY <2>1, <1>2, BuildReports DEF Reports
  <2> QED BY <2>2
<1> QED BY <1>1, <1>2 DEF DraftInv

LEMMA NextDraft == DraftInv /\ [Next]_vars => DraftInv'
<1> SUFFICES ASSUME DraftInv, [Next]_vars, session' = "builder" PROVE DraftInv'
  BY DEF DraftInv
<1>0. session = "builder"
  BY DEF Next, vars, Call, CallBuild, Answer, Submit, ReenterForm, Abort, Finish,
         MistypeCharacter, DropCharacter, Generate, Spoil
<1>1. /\ kind \in MiddsKinds /\ focus \subseteq Fields(kind) /\ IsDraft(kind, entry)
      /\ outcome = Editing \/ outcome = Build(kind, entry)
  BY <1>0 DEF DraftInv
<1>2. CASE Call
  <2>1. PICK f \in focus : entry' \in Calls(kind, entry, f)
    BY <1>2 DEF Call
  <2>2. IsDraft(kind, entry')
    BY <1>1, <2>1, CallsKeepDraft
  <2>3. outcome' = Editing /\ kind' = kind /\ focus' = focus
    BY <1>2 DEF Call
  <2>4. IsDraft(kind', entry') /\ kind' \in MiddsKinds /\ focus' \subseteq Fields(kind')
    BY <1>1, <2>2, <2>3
  <2>5. Editing' = Editing
    BY DEF Editing
  <2> QED BY <2>3, <2>4, <2>5 DEF DraftInv
<1>3. CASE CallBuild
  <2>1. kind' = kind /\ focus' = focus /\ entry' = entry /\ outcome' = Build(kind, entry)
    BY <1>3 DEF CallBuild
  <2> QED BY <1>1, <2>1 DEF DraftInv
<1>4. CASE ReenterForm \/ Abort \/ Finish
  BY <1>0, <1>4, BuilderOutcomes DEF ReenterForm, Abort, Finish
<1>5. CASE Answer \/ Submit \/ MistypeCharacter \/ DropCharacter \/ Generate \/ Spoil
  BY <1>0, <1>5 DEF Answer, Submit, MistypeCharacter, DropCharacter, Generate, Spoil
<1>6. CASE UNCHANGED vars
  BY <1>0, <1>1, <1>6 DEF vars, DraftInv
<1> QED BY <1>2, <1>3, <1>4, <1>5, <1>6 DEF Next

\* In every session of a builder the entry is a draft of its kind, with values
\* of the types of the calls, and the outcome is that of the last build(), of
\* this draft: no call after it changes what was reported.
THEOREM DraftsAlways == Spec => []DraftInv
  BY InitDraft, NextDraft, PTL DEF Spec

\* In every session of a builder: build() names every entry at fault and no
\* other, however many there are and of whatever kind.
THEOREM FaultsAlwaysReported == Spec => []EveryFaultReported
<1>1. DraftInv => EveryFaultReported
  <2> SUFFICES ASSUME DraftInv, session = "builder", outcome.status \in {"built", "fields", "panic"}
               PROVE  Range(outcome.errors) = Faults(kind, entry)
    BY DEF EveryFaultReported
  <2>1. kind \in MiddsKinds /\ IsDraft(kind, entry) /\ outcome = Build(kind, entry)
    BY DEF DraftInv, Editing
  <2>2. Reports(kind, entry, outcome)
    BY <2>1, BuildReports
  <2>3. \A x : x \in Range(outcome.errors) <=> Holds(outcome.errors, x)
    BY DEF Range, Holds
  <2> QED BY <2>2, <2>3 DEF Reports
<1> QED BY <1>1, DraftsAlways, PTL

\* In every session of a builder: what was built has an entry for each call,
\* tracks and performers keep what they were given, in their places.
THEOREM EntriesAlwaysKept == Spec => []BuiltKeepsEveryEntry
<1>1. DraftInv => BuiltKeepsEveryEntry
  <2> SUFFICES ASSUME DraftInv, Built PROVE BuiltKeepsEveryEntry
    BY DEF BuiltKeepsEveryEntry
  <2>1. kind \in MiddsKinds /\ IsDraft(kind, entry) /\ outcome = Build(kind, entry)
        /\ outcome.status = "built"
    BY DEF DraftInv, Editing, Built
  <2>2. KeepsEntries(kind, entry, outcome.payload[1])
    BY <2>1, BuildReports DEF BuiltFrom
  <2> QED BY <2>2 DEF KeepsEntries, BuiltKeepsEveryEntry
<1> QED BY <1>1, DraftsAlways, PTL

-----------------------------------------------------------------------------
(* The chain's verdict on what was built.                                  *)

\* No result of a sequence is an error.
Pass(r) == Within(r, {Ok})

LEMMA PassBoth ==
  ASSUME NEW a, AnySeq(a), NEW b, AnySeq(b)
  PROVE  AnySeq(a \o b) /\ (Pass(a \o b) <=> Pass(a) /\ Pass(b))
  BY OneAfterAnother, Zenon DEF Pass

LEMMA PassFirst ==
  ASSUME NEW r, AnySeq(r)
  PROVE  FirstError(r) = Ok <=> Pass(r)
  BY FirstErrorFacts DEF Pass

LEMMA PassEach ==
  ASSUME NEW s, AnySeq(s), NEW r, r = [i \in DOMAIN s |-> r[i]]
  PROVE  AnySeq(r) /\ (Pass(r) <=> \A i \in DOMAIN s : r[i] = Ok)
<1>1. AnySeq(r)
  BY EachIsAny
<1>2. DOMAIN r = DOMAIN s
  OBVIOUS
<1>3. Pass(r) <=> \A i \in DOMAIN s : r[i] = Ok
  BY <1>2 DEF Pass, Within
<1> QED BY <1>1, <1>3

LEMMA PassTuples ==
  ASSUME NEW a, NEW b, NEW c, NEW d, NEW e
  PROVE  /\ AnySeq(<<a>>) /\ (Pass(<<a>>) <=> a = Ok)
         /\ AnySeq(<<a, b>>) /\ (Pass(<<a, b>>) <=> a = Ok /\ b = Ok)
         /\ AnySeq(<<a, b, c, d>>)
         /\ (Pass(<<a, b, c, d>>) <=> a = Ok /\ b = Ok /\ c = Ok /\ d = Ok)
         /\ AnySeq(<<a, b, c, d, e>>)
         /\ (Pass(<<a, b, c, d, e>>) <=> a = Ok /\ b = Ok /\ c = Ok /\ d = Ok /\ e = Ok)
<1> DEFINE T == {a, b, c, d, e}
<1>1. a \in T /\ b \in T /\ c \in T /\ d \in T /\ e \in T
  OBVIOUS
<1> HIDE DEF T
<1>2. /\ <<a>> \in Seq(T) /\ <<a, b>> \in Seq(T) /\ <<a, b, c, d>> \in Seq(T)
      /\ <<a, b, c, d, e>> \in Seq(T)
  BY <1>1
<1>3. AnySeq(<<a>>) /\ AnySeq(<<a, b>>)
  <2>1. AnySeq(<<a>>)
    BY <1>2, SeqIsAny
  <2>2. AnySeq(<<a, b>>)
    BY <1>2, SeqIsAny
  <2> QED BY <2>1, <2>2
<1>4. AnySeq(<<a, b, c, d>>) /\ AnySeq(<<a, b, c, d, e>>)
  <2>1. AnySeq(<<a, b, c, d>>)
    BY <1>2, SeqIsAny
  <2>2. AnySeq(<<a, b, c, d, e>>)
    BY <1>2, SeqIsAny
  <2> QED BY <2>1, <2>2
<1>5. Pass(<<a>>) <=> a = Ok
  BY DEF Pass, Within
<1>6. Pass(<<a, b>>) <=> a = Ok /\ b = Ok
  BY DEF Pass, Within
<1>7. Pass(<<a, b, c, d>>) <=> a = Ok /\ b = Ok /\ c = Ok /\ d = Ok
  BY DEF Pass, Within
<1>8. Pass(<<a, b, c, d, e>>) <=> a = Ok /\ b = Ok /\ c = Ok /\ d = Ok /\ e = Ok
  BY DEF Pass, Within
<1> QED BY <1>3, <1>4, <1>5, <1>6, <1>7, <1>8

LEMMA UnlessOk ==
  /\ \A b \in BOOLEAN : Unless(b, OutOfBounds) = Ok <=> ~b
  /\ \A b \in BOOLEAN : Unless(b, EmptyMandatoryField) = Ok <=> ~b
  /\ \A b \in BOOLEAN : Unless(b, CrossFieldInconsistency) = Ok <=> ~b
  BY DEF Unless, Ok, OutOfBounds, EmptyMandatoryField, CrossFieldInconsistency

\* An optional number, of which the chain alone checks the range.
LEMMA NumberRule ==
  ASSUME NEW S, NEW o \in Options(S), NEW range
  PROVE  OfOption(LAMBDA n : InRange(n, range), o) = Ok <=> ~\E n \in Range(o) : n \notin range
<1> DEFINE r == [i \in DOMAIN o |-> InRange(o[i], range)]
<1>1. MaybeOne(o)
  BY DEF Options, MaybeOne, Some
<1>2. OfOption(LAMBDA n : InRange(n, range), o) = FirstError(r)
  BY DEF OfOption, Each
<1>3. FirstError(r) = IF o = None THEN Ok ELSE r[1]
  BY <1>1, OptionResult
<1>4. CASE o = None
  <2>1. Range(o) = {}
    BY <1>4 DEF None, Range
  <2> QED BY <1>2, <1>3, <1>4, <2>1
<1>5. CASE o # None
  <2>1. PICK v \in S : o = <<v>>
    BY <1>5 DEF Options, Some
  <2>2. Range(o) = {v} /\ r[1] = InRange(v, range)
    BY <2>1 DEF Range
  <2>3. InRange(v, range) = Ok <=> v \in range
    BY DEF InRange, Ok, OutOfBounds
  <2> HIDE DEF r
  <2> QED BY <1>2, <1>3, <1>5, <2>2, <2>3
<1> QED BY <1>4, <1>5

LEMMA NoneRepeated ==
  ASSUME NEW s, AnySeq(s)
  PROVE  (\A i \in DOMAIN s : ~Repeated(s, i)) <=> IsInjective(s)
<1>1. DOMAIN s = 1..Len(s) /\ Len(s) \in Nat
  BY AnyIsSeq
<1>2. ASSUME IsInjective(s), NEW i \in DOMAIN s PROVE ~Repeated(s, i)
  <2> SUFFICES ASSUME NEW j \in 1..(i - 1), s[j] = s[i] PROVE FALSE
    BY DEF Repeated
  <2>1. j \in DOMAIN s /\ j # i
    BY <1>1
  <2> QED BY <1>2, <2>1 DEF IsInjective
<1>3. ASSUME \A i \in DOMAIN s : ~Repeated(s, i) PROVE IsInjective(s)
  <2> SUFFICES ASSUME NEW i \in DOMAIN s, NEW j \in DOMAIN s, s[i] = s[j], i # j PROVE FALSE
    BY DEF IsInjective
  <2>1. i \in 1..(j - 1) \/ j \in 1..(i - 1)
    BY <1>1
  <2> QED BY <1>3, <2>1 DEF Repeated
<1> QED BY <1>2, <1>3

\* What a caller of the builder passes for the type of a work.
LEMMA WorkTypesTyped ==
  ASSUME NEW w \in WorkTypes
  PROVE  AnySeq(w.sources) /\ (w.form \notin Collages => IsInjective(w.sources))
<1>1. /\ w.sources \in Seq(Codes)
      /\ w.form = "Medley" \/ (w.form \in {"Original", "Adaptation"} /\ Len(w.sources) <= 1)
  <2>1. CASE w = Original
    BY <2>1 DEF Original, WorkType
  <2>2. CASE \E s \in SourceLists : w = WorkType("Medley", s)
    BY <2>2, InputsAssumption DEF WorkType
  <2>3. CASE \E s \in SourceLists \ {<<>>} : w = WorkType("Adaptation", <<s[1]>>)
    <3>1. PICK s \in SourceLists \ {<<>>} : w = WorkType("Adaptation", <<s[1]>>)
      BY <2>3
    <3>2. s \in Seq(Codes) /\ s # <<>>
      BY InputsAssumption
    <3>3. s[1] \in Codes
      BY <3>2
    <3>4. w.sources = <<s[1]>> /\ w.form = "Adaptation"
      BY <3>1 DEF WorkType
    <3> QED BY <3>3, <3>4
  <2> QED BY <2>1, <2>2, <2>3 DEF WorkTypes
<1> DEFINE l == w.sources
<1>2. DOMAIN l = 1..Len(l) /\ Len(l) \in Nat
  BY <1>1
<1>3. AnySeq(l)
  BY <1>1, SeqIsAny
<1>4. Len(l) <= 1 => IsInjective(l)
  BY <1>2 DEF IsInjective
<1> QED BY <1>1, <1>3, <1>4 DEF Collages

LEMMA WorkTypeRule ==
  ASSUME NEW w, AnySeq(w.work_type.sources),
         w.work_type.form \notin Collages => IsInjective(w.work_type.sources)
  PROVE  LET sources == w.work_type.sources
         IN  ValidateWorkType(w) = Ok <=>
               /\ \A i \in DOMAIN sources : ValidateIswc(sources[i]) = Ok
               /\ ~(w.work_type.form \in Collages /\ Len(sources) < 2)
               /\ IsInjective(sources) /\ \A i \in DOMAIN sources : sources[i] # w.iswc
<1> DEFINE sources == w.work_type.sources
           form == w.work_type.form
           formed == [i \in DOMAIN sources |-> ValidateIswc(sources[i])]
<1>3. AnySeq(sources) /\ (form \notin Collages => IsInjective(sources))
  OBVIOUS
<1> HIDE DEF sources, form
<1>4. AnySeq(formed) /\ (Pass(formed) <=> \A i \in DOMAIN sources : ValidateIswc(sources[i]) = Ok)
  <2>1. \A i \in DOMAIN sources : formed[i] = ValidateIswc(sources[i])
    OBVIOUS
  <2>2. formed = [i \in DOMAIN sources |-> formed[i]]
    OBVIOUS
  <2> HIDE DEF formed
  <2> QED BY <1>3, <2>1, <2>2, PassEach
<1>5. CASE form \in Collages
  <2> DEFINE enough == << Unless(Len(sources) < 2, OutOfBounds) >>
             apart == [i \in DOMAIN sources |->
                        Unless(sources[i] = w.iswc \/ Repeated(sources, i), CrossFieldInconsistency)]
  <2>1. ValidateWorkType(w) = FirstError(enough \o formed \o apart)
    BY <1>5 DEF ValidateWorkType, Each, form, sources
  <2>2. AnySeq(enough) /\ (Pass(enough) <=> ~(Len(sources) < 2))
    <3>1. Unless(Len(sources) < 2, OutOfBounds) = Ok <=> ~(Len(sources) < 2)
      BY DEF Unless, Ok, OutOfBounds
    <3> QED BY <3>1, PassTuples
  <2>3. /\ AnySeq(apart)
        /\ Pass(apart) <=> \A i \in DOMAIN sources : ~(sources[i] = w.iswc \/ Repeated(sources, i))
    <3>1. \A i \in DOMAIN sources :
            apart[i] = Ok <=> ~(sources[i] = w.iswc \/ Repeated(sources, i))
      BY DEF Unless, Ok, CrossFieldInconsistency
    <3>2. apart = [i \in DOMAIN sources |-> apart[i]]
      OBVIOUS
    <3> HIDE DEF apart
    <3> QED BY <1>3, <3>1, <3>2, PassEach
  <2> HIDE DEF enough, formed, apart
  <2>4. AnySeq(enough \o formed) /\ (Pass(enough \o formed) <=> Pass(enough) /\ Pass(formed))
    BY <1>4, <2>2, PassBoth
  <2>5. /\ AnySeq(enough \o formed \o apart)
        /\ Pass(enough \o formed \o apart) <=> Pass(enough \o formed) /\ Pass(apart)
    BY <2>3, <2>4, PassBoth
  <2>6. ValidateWorkType(w) = Ok <=> Pass(enough) /\ Pass(formed) /\ Pass(apart)
    BY <2>1, <2>4, <2>5, PassFirst
  <2>7. (\A i \in DOMAIN sources : ~Repeated(sources, i)) <=> IsInjective(sources)
    BY <1>3, NoneRepeated
  <2> QED BY <1>4, <1>5, <2>2, <2>3, <2>6, <2>7 DEF sources, form
<1>6. CASE form \notin Collages
  <2> DEFINE apart == [i \in DOMAIN sources |->
                        Unless(sources[i] = w.iswc, CrossFieldInconsistency)]
  <2>1. ValidateWorkType(w) = FirstError(formed \o apart)
    BY <1>6 DEF ValidateWorkType, Each, form, sources
  <2>2. AnySeq(apart) /\ (Pass(apart) <=> \A i \in DOMAIN sources : sources[i] # w.iswc)
    <3>1. \A i \in DOMAIN sources : apart[i] = Ok <=> sources[i] # w.iswc
      BY DEF Unless, Ok, CrossFieldInconsistency
    <3>2. apart = [i \in DOMAIN sources |-> apart[i]]
      OBVIOUS
    <3> HIDE DEF apart
    <3> QED BY <1>3, <3>1, <3>2, PassEach
  <2> HIDE DEF formed, apart
  <2>3. AnySeq(formed \o apart) /\ (Pass(formed \o apart) <=> Pass(formed) /\ Pass(apart))
    BY <1>4, <2>2, PassBoth
  <2>4. ValidateWorkType(w) = Ok <=> Pass(formed) /\ Pass(apart)
    BY <2>1, <2>3, PassFirst
  <2>5. IsInjective(sources)
    BY <1>3, <1>6
  <2> QED BY <1>4, <1>6, <2>2, <2>4, <2>5 DEF sources, form
<1> QED BY <1>5, <1>6

LEMMA SamplesRule ==
  ASSUME NEW w, AnySeq(w.samples), \A i \in DOMAIN w.samples : ValidateWorkRef(w.samples[i]) = Ok,
         NEW r, r = [i \in DOMAIN w.samples |-> ValidateSample(w, i)]
  PROVE  /\ AnySeq(r)
         /\ Pass(r) <=> /\ IsInjective(w.samples)
                        /\ \A i \in DOMAIN w.samples : w.samples[i] # ByCode(w.iswc)
<1> DEFINE s == w.samples
<1>1. ASSUME NEW i \in DOMAIN s
      PROVE  r[i] = Ok <=> s[i] # ByCode(w.iswc) /\ ~Repeated(s, i)
  <2>1. Unless(s[i] = ByCode(w.iswc), CrossFieldInconsistency) = Ok <=> s[i] # ByCode(w.iswc)
    BY DEF Unless, Ok, CrossFieldInconsistency
  <2>2. Unless(Repeated(s, i), CrossFieldInconsistency) = Ok <=> ~Repeated(s, i)
    BY DEF Unless, Ok, CrossFieldInconsistency
  <2>3. r[i] = ValidateSample(w, i)
    OBVIOUS
  <2>4. ValidateSample(w, i) = Ok
          <=> /\ ValidateWorkRef(s[i]) = Ok
              /\ Unless(s[i] = ByCode(w.iswc), CrossFieldInconsistency) = Ok
              /\ Unless(Repeated(s, i), CrossFieldInconsistency) = Ok
    BY ThreeRules DEF ValidateSample
  <2> QED BY <2>1, <2>2, <2>3, <2>4
<1>2. AnySeq(s) /\ r = [i \in DOMAIN s |-> r[i]]
  OBVIOUS
<1> HIDE DEF s
<1>3. AnySeq(r) /\ (Pass(r) <=> \A i \in DOMAIN s : r[i] = Ok)
  BY <1>2, PassEach
<1>4. (\A i \in DOMAIN s : ~Repeated(s, i)) <=> IsInjective(s)
  BY <1>2, NoneRepeated
<1>5. Pass(r) <=> IsInjective(s) /\ \A i \in DOMAIN s : s[i] # ByCode(w.iswc)
  BY <1>1, <1>3, <1>4
<1> QED BY <1>3, <1>5 DEF s

\* A record that was built from a draft with an entry in a list has one there.
LEMMA ListStored ==
  ASSUME TypedInAscii, NEW k, NEW d, NEW p, BuiltFrom(k, d, p), NEW f \in BuiltFields(k), f \in Lists
  PROVE  AnySeq(p[f]) /\ DOMAIN p[f] = DOMAIN d[f] /\ \A i \in DOMAIN p[f] : ValueStored(k, f, p[f][i])
  BY DEF BuiltFrom, PartStored

LEMMA ValueIsStored ==
  ASSUME TypedInAscii, NEW k, NEW d, NEW p, BuiltFrom(k, d, p), NEW f \in BuiltFields(k), f \notin Lists
  PROVE  ValueStored(k, f, p[f])
  BY DEF BuiltFrom, PartStored

LEMMA StillNotEmpty ==
  ASSUME NEW S, NEW l \in Seq(S), l # <<>>, NEW v, DOMAIN v = DOMAIN l
  PROVE  v # <<>>
<1>1. 1 \in DOMAIN l
  BY Z3
<1> QED BY <1>1

\* A work whose fields are good by themselves, but for what build() leaves to
\* the chain: the numbers and the source works, of whatever years and beats.
WorkSound(p, years, beats) ==
  /\ p.creation_year \in Options(years) /\ p.bpm \in Options(beats)
  /\ ValidateIswc(p.iswc) = Ok /\ NonEmpty(p.title) = Ok
  /\ ValidateOffchain(p.offchain_extension) = Ok
  /\ OfOption(ValidateClassical, p.classical_info) = Ok
  /\ AnySeq(p.work_type.sources)
  /\ p.work_type.form \notin Collages => IsInjective(p.work_type.sources)
  /\ AnySeq(p.creators) /\ \A i \in DOMAIN p.creators : ValidateCreator(p.creators[i]) = Ok
  /\ p.creators # <<>>
  /\ AnySeq(p.samples) /\ \A i \in DOMAIN p.samples : ValidateWorkRef(p.samples[i]) = Ok

LEMMA WorkRuling ==
  ASSUME NEW p, NEW years, NEW beats, WorkSound(p, years, beats)
  PROVE  ValidateWork(p) = Ok <=> ~UncheckedByBuild("MusicalWork", p)
<1>2. p.creation_year \in Options(years) /\ p.bpm \in Options(beats)
  BY DEF WorkSound
<1>3. /\ ValidateIswc(p.iswc) = Ok /\ NonEmpty(p.title) = Ok
      /\ ValidateOffchain(p.offchain_extension) = Ok
      /\ OfOption(ValidateClassical, p.classical_info) = Ok
  BY DEF WorkSound
<1>3a. /\ AnySeq(p.work_type.sources)
       /\ p.work_type.form \notin Collages => IsInjective(p.work_type.sources)
  BY DEF WorkSound
<1> DEFINE creators == p.creators
           samples == p.samples
<1>4. /\ AnySeq(creators) /\ \A i \in DOMAIN creators : ValidateCreator(creators[i]) = Ok
      /\ AnySeq(samples) /\ \A i \in DOMAIN samples : ValidateWorkRef(samples[i]) = Ok
  BY DEF WorkSound
<1>5. creators # <<>>
  BY DEF WorkSound
<1> HIDE DEF creators, samples
<1> DEFINE head == << ValidateIswc(p.iswc),
                      NonEmpty(p.title),
                      OfOption(LAMBDA y : InRange(y, YearRange), p.creation_year),
                      OfOption(LAMBDA b : InRange(b, BpmRange), p.bpm),
                      Unless(creators = <<>>, EmptyMandatoryField) >>
           named == [i \in DOMAIN creators |-> ValidateCreator(creators[i])]
           typed == << ValidateWorkType(p) >>
           sampled == [i \in DOMAIN samples |-> ValidateSample(p, i)]
           rest == << OfOption(ValidateClassical, p.classical_info),
                      ValidateOffchain(p.offchain_extension) >>
<1>6. ValidateWork(p) = FirstError(head \o named \o typed \o sampled \o rest)
  BY DEF ValidateWork, Each, creators, samples
<1>7. /\ AnySeq(head)
      /\ Pass(head) <=> /\ ~\E y \in Range(p.creation_year) : y \notin YearRange
                        /\ ~\E b \in Range(p.bpm) : b \notin BpmRange
  <2> DEFINE year == OfOption(LAMBDA y : InRange(y, YearRange), p.creation_year)
             beat == OfOption(LAMBDA b : InRange(b, BpmRange), p.bpm)
  <2>1. year = Ok <=> ~\E y \in Range(p.creation_year) : y \notin YearRange
    BY <1>2, NumberRule
  <2>2. beat = Ok <=> ~\E b \in Range(p.bpm) : b \notin BpmRange
    BY <1>2, NumberRule
  <2>3. Unless(creators = <<>>, EmptyMandatoryField) = Ok
    BY <1>5 DEF Unless
  <2> DEFINE code == ValidateIswc(p.iswc)
             title == NonEmpty(p.title)
             some == Unless(creators = <<>>, EmptyMandatoryField)
  <2>4. head = << code, title, year, beat, some >>
    OBVIOUS
  <2>5. code = Ok /\ title = Ok /\ some = Ok
    BY <1>3, <2>3
  <2> HIDE DEF head, year, beat, code, title, some
  <2>6. /\ AnySeq(<< code, title, year, beat, some >>)
        /\ Pass(<< code, title, year, beat, some >>)
             <=> code = Ok /\ title = Ok /\ year = Ok /\ beat = Ok /\ some = Ok
    BY PassTuples, Zenon
  <2> QED BY <2>1, <2>2, <2>4, <2>5, <2>6
<1>8. AnySeq(named) /\ Pass(named)
  <2>1. named = [i \in DOMAIN creators |-> named[i]] /\ \A i \in DOMAIN creators : named[i] = Ok
    BY <1>4
  <2> HIDE DEF named
  <2> QED BY <1>4, <2>1, PassEach
<1>9. AnySeq(typed) /\ (Pass(typed) <=> ValidateWorkType(p) = Ok)
  BY PassTuples
<1>10. /\ AnySeq(sampled)
       /\ Pass(sampled) <=> /\ IsInjective(samples)
                            /\ \A i \in DOMAIN samples : samples[i] # ByCode(p.iswc)
  BY <1>4, SamplesRule DEF samples
<1>11. AnySeq(rest) /\ Pass(rest)
  BY <1>3, PassTuples
<1> HIDE DEF head, named, typed, sampled, rest
<1>12. AnySeq(head \o named) /\ (Pass(head \o named) <=> Pass(head))
  BY <1>7, <1>8, PassBoth
<1>13. /\ AnySeq(head \o named \o typed)
       /\ Pass(head \o named \o typed) <=> Pass(head) /\ Pass(typed)
  BY <1>9, <1>12, PassBoth
<1>14. /\ AnySeq(head \o named \o typed \o sampled)
       /\ Pass(head \o named \o typed \o sampled) <=> Pass(head) /\ Pass(typed) /\ Pass(sampled)
  BY <1>10, <1>13, PassBoth
<1>15. /\ AnySeq(head \o named \o typed \o sampled \o rest)
       /\ Pass(head \o named \o typed \o sampled \o rest)
            <=> Pass(head) /\ Pass(typed) /\ Pass(sampled)
  BY <1>11, <1>14, PassBoth
<1>16. ValidateWork(p) = Ok <=> Pass(head) /\ Pass(typed) /\ Pass(sampled)
  BY <1>6, <1>15, PassFirst
<1>17. ValidateWorkType(p) = Ok <=>
         /\ ~\E code \in Range(p.work_type.sources) : ValidateIswc(code) # Ok
         /\ ~(p.work_type.form \in Collages /\ Len(p.work_type.sources) < 2)
         /\ IsInjective(p.work_type.sources) /\ p.iswc \notin Range(p.work_type.sources)
  <2> DEFINE sources == p.work_type.sources
  <2>1. ValidateWorkType(p) = Ok <=>
          /\ \A i \in DOMAIN sources : ValidateIswc(sources[i]) = Ok
          /\ ~(p.work_type.form \in Collages /\ Len(sources) < 2)
          /\ IsInjective(sources) /\ \A i \in DOMAIN sources : sources[i] # p.iswc
    BY <1>3a, WorkTypeRule
  <2> HIDE DEF sources
  <2>2. (\E code \in Range(sources) : ValidateIswc(code) # Ok)
          <=> ~\A i \in DOMAIN sources : ValidateIswc(sources[i]) = Ok
    BY DEF Range
  <2>3. p.iswc \in Range(sources) <=> ~\A i \in DOMAIN sources : sources[i] # p.iswc
    BY DEF Range
  <2> QED BY <2>1, <2>2, <2>3 DEF sources
<1>18. ByCode(p.iswc) \in Range(samples) <=> ~\A i \in DOMAIN samples : samples[i] # ByCode(p.iswc)
  BY DEF Range
<1>19. ValidateWork(p) = Ok <=>
         ~(\/ \E y \in Range(p.creation_year) : y \notin YearRange
           \/ \E b \in Range(p.bpm) : b \notin BpmRange
           \/ \E code \in Range(p.work_type.sources) : ValidateIswc(code) # Ok
           \/ p.work_type.form \in Collages /\ Len(p.work_type.sources) < 2
           \/ ~IsInjective(p.work_type.sources) \/ p.iswc \in Range(p.work_type.sources)
           \/ ~IsInjective(p.samples) \/ ByCode(p.iswc) \in Range(p.samples))
  BY <1>7, <1>9, <1>10, <1>16, <1>17, <1>18 DEF samples
<1> QED BY <1>19 DEF UncheckedByBuild, Clash

LEMMA WorkStorable ==
  ASSUME TypedInAscii, NEW d, IsDraft("MusicalWork", d), d.creators # <<>>,
         NEW p, BuiltFrom("MusicalWork", d, p)
  PROVE  ValidateWork(p) = Ok <=> ~UncheckedByBuild("MusicalWork", p)
<1>1. /\ d.creation_year \in Options(Years) /\ d.bpm \in Options(Bpms)
      /\ d.work_type \in Options(WorkTypes)
  <2>1. \A f \in {"creation_year", "bpm", "work_type"} :
          d[f] \in Options(FieldInputs("MusicalWork", f))
    BY DEF IsDraft, Fields, FieldValues, Flags, Lists
  <2>2. /\ FieldInputs("MusicalWork", "creation_year") = Years
        /\ FieldInputs("MusicalWork", "bpm") = Bpms
        /\ FieldInputs("MusicalWork", "work_type") = WorkTypes
    BY DEF FieldInputs, IdKinds
  <2> QED BY <2>1, <2>2
<1>2. /\ p.creation_year \in Options(Years) /\ p.bpm \in Options(Bpms)
      /\ p.work_type \in WorkTypes /\ p.classical_info = None
  <2>1. /\ p.creation_year = d.creation_year /\ p.bpm = d.bpm /\ p.classical_info = None
        /\ p.work_type = IF d.work_type = None THEN Original ELSE d.work_type[1]
    BY DEF BuiltFrom, TypedAlong
  <2>2. Original \in WorkTypes /\ (d.work_type # None => d.work_type[1] \in WorkTypes)
    BY <1>1 DEF WorkTypes, Options, Some
  <2> QED BY <1>1, <2>1, <2>2
<1>3. /\ ValidateIswc(p.iswc) = Ok /\ NonEmpty(p.title) = Ok
      /\ ValidateOffchain(p.offchain_extension) = Ok
  <2>1. \A f \in {"iswc", "title", "offchain_extension"} : ValueStored("MusicalWork", f, p[f])
    <3>1. \A f \in {"iswc", "title", "offchain_extension"} :
            f \in BuiltFields("MusicalWork") /\ f \notin Lists
      BY DEF BuiltFields, Fields, Flags, Lists
    <3> QED BY <3>1, ValueIsStored
  <2> QED BY <2>1 DEF ValueStored, IdKinds, Validate
<1> DEFINE creators == p.creators
           samples == p.samples
<1>4. /\ AnySeq(creators) /\ \A i \in DOMAIN creators : ValidateCreator(creators[i]) = Ok
      /\ AnySeq(samples) /\ \A i \in DOMAIN samples : ValidateWorkRef(samples[i]) = Ok
      /\ DOMAIN creators = DOMAIN d.creators
  <2>1. \A f \in {"creators", "samples"} :
          /\ AnySeq(p[f]) /\ DOMAIN p[f] = DOMAIN d[f]
          /\ \A i \in DOMAIN p[f] : ValueStored("MusicalWork", f, p[f][i])
    <3>1. \A f \in {"creators", "samples"} : f \in BuiltFields("MusicalWork") /\ f \in Lists
      BY DEF BuiltFields, Fields, Flags, Lists
    <3> QED BY <3>1, ListStored
  <2> QED BY <2>1 DEF ValueStored, IdKinds
<1>5. creators # <<>>
  <2>1. d["creators"] \in Seq(FieldInputs("MusicalWork", "creators"))
    BY DraftList DEF Fields, Lists
  <2> QED BY <2>1, <1>4, StillNotEmpty
<1>6. OfOption(ValidateClassical, p.classical_info) = Ok
  <2> DEFINE r == [i \in DOMAIN None |-> ValidateClassical(None[i])]
  <2>1. OfOption(ValidateClassical, p.classical_info) = FirstError(r)
    BY <1>2 DEF OfOption, Each
  <2> QED BY <2>1, NoneMaybe, OptionResult
<1>7. /\ AnySeq(p.work_type.sources)
      /\ p.work_type.form \notin Collages => IsInjective(p.work_type.sources)
  BY <1>2, WorkTypesTyped
<1>8. WorkSound(p, Years, Bpms)
  BY <1>2, <1>3, <1>4, <1>5, <1>6, <1>7 DEF WorkSound
<1> QED BY <1>8, WorkRuling

LEMMA EachPassed ==
  ASSUME NEW s, AnySeq(s), NEW r, r = [i \in DOMAIN s |-> r[i]], \A i \in DOMAIN s : r[i] = Ok
  PROVE  AnySeq(r) /\ Pass(r)
  BY PassEach

\* The same of a recording.
RecordingSound(p, years, beats) ==
  /\ p.record_year \in Options(years) /\ p.bpm \in Options(beats)
  /\ ValidateIsrc(p.isrc) = Ok /\ NonEmpty(p.title) = Ok /\ ValidateParty(p.artist) = Ok
  /\ ValidateWorkRef(p.work) = Ok /\ OfOption(ValidatePlaces, p.places) = Ok
  /\ ValidateOffchain(p.offchain_extension) = Ok
  /\ AnySeq(p.title_aliases) /\ \A i \in DOMAIN p.title_aliases : NonEmpty(p.title_aliases[i]) = Ok
  /\ AnySeq(p.featuring) /\ \A i \in DOMAIN p.featuring : ValidateParty(p.featuring[i]) = Ok
  /\ AnySeq(p.performers)
  /\ \A i \in DOMAIN p.performers : ValidatePerformerId(p.performers[i]) = Ok
  /\ AnySeq(p.producers) /\ \A i \in DOMAIN p.producers : ValidateIsni(p.producers[i]) = Ok
  /\ AnySeq(p.contributors)
  /\ \A i \in DOMAIN p.contributors : ValidateParty(p.contributors[i]) = Ok

LEMMA RecordingRuling ==
  ASSUME NEW p, NEW years, NEW beats, RecordingSound(p, years, beats)
  PROVE  ValidateRecording(p) = Ok <=> ~UncheckedByBuild("Recording", p)
<1>1. p.record_year \in Options(years) /\ p.bpm \in Options(beats)
  BY DEF RecordingSound
<1>2. /\ ValidateIsrc(p.isrc) = Ok /\ NonEmpty(p.title) = Ok /\ ValidateParty(p.artist) = Ok
      /\ ValidateWorkRef(p.work) = Ok /\ OfOption(ValidatePlaces, p.places) = Ok
      /\ ValidateOffchain(p.offchain_extension) = Ok
  BY DEF RecordingSound
<1>3. /\ AnySeq(p.title_aliases) /\ \A i \in DOMAIN p.title_aliases : NonEmpty(p.title_aliases[i]) = Ok
      /\ AnySeq(p.featuring) /\ \A i \in DOMAIN p.featuring : ValidateParty(p.featuring[i]) = Ok
      /\ AnySeq(p.performers)
      /\ \A i \in DOMAIN p.performers : ValidatePerformerId(p.performers[i]) = Ok
      /\ AnySeq(p.producers) /\ \A i \in DOMAIN p.producers : ValidateIsni(p.producers[i]) = Ok
      /\ AnySeq(p.contributors)
      /\ \A i \in DOMAIN p.contributors : ValidateParty(p.contributors[i]) = Ok
  BY DEF RecordingSound
<1> DEFINE head == << ValidateIsrc(p.isrc), NonEmpty(p.title) >>
           aliases == [i \in DOMAIN p.title_aliases |-> NonEmpty(p.title_aliases[i])]
           typed == << OfOption(LAMBDA y : InRange(y, YearRange), p.record_year),
                       OfOption(LAMBDA b : InRange(b, BpmRange), p.bpm),
                       Unless(p.sub_genre # None /\ p.genre = None, CrossFieldInconsistency),
                       ValidateParty(p.artist) >>
           featured == [i \in DOMAIN p.featuring |-> ValidateParty(p.featuring[i])]
           work == << ValidateWorkRef(p.work) >>
           performed == [i \in DOMAIN p.performers |-> ValidatePerformerId(p.performers[i])]
           produced == [i \in DOMAIN p.producers |-> ValidateIsni(p.producers[i])]
           helped == [i \in DOMAIN p.contributors |-> ValidateParty(p.contributors[i])]
           rest == << OfOption(ValidatePlaces, p.places), ValidateOffchain(p.offchain_extension) >>
<1>4. ValidateRecording(p) =
        FirstError(head \o aliases \o typed \o featured \o work \o performed \o produced \o helped
                   \o rest)
  BY DEF ValidateRecording, Each
<1>5. AnySeq(head) /\ Pass(head)
  BY <1>2, PassTuples
<1>6. AnySeq(aliases) /\ Pass(aliases)
  <2>1. aliases = [i \in DOMAIN p.title_aliases |-> aliases[i]]
        /\ \A i \in DOMAIN p.title_aliases : aliases[i] = Ok
    BY <1>3
  <2> HIDE DEF aliases
  <2> QED BY <1>3, <2>1, EachPassed
<1>7. AnySeq(featured) /\ Pass(featured)
  <2>1. featured = [i \in DOMAIN p.featuring |-> featured[i]]
        /\ \A i \in DOMAIN p.featuring : featured[i] = Ok
    BY <1>3
  <2> HIDE DEF featured
  <2> QED BY <1>3, <2>1, EachPassed
<1>8. AnySeq(performed) /\ Pass(performed)
  <2>1. performed = [i \in DOMAIN p.performers |-> performed[i]]
        /\ \A i \in DOMAIN p.performers : performed[i] = Ok
    BY <1>3
  <2> HIDE DEF performed
  <2> QED BY <1>3, <2>1, EachPassed
<1>9. AnySeq(produced) /\ Pass(produced)
  <2>1. produced = [i \in DOMAIN p.producers |-> produced[i]]
        /\ \A i \in DOMAIN p.producers : produced[i] = Ok
    BY <1>3
  <2> HIDE DEF produced
  <2> QED BY <1>3, <2>1, EachPassed
<1>10. AnySeq(helped) /\ Pass(helped)
  <2>1. helped = [i \in DOMAIN p.contributors |-> helped[i]]
        /\ \A i \in DOMAIN p.contributors : helped[i] = Ok
    BY <1>3
  <2> HIDE DEF helped
  <2> QED BY <1>3, <2>1, EachPassed
<1>11. AnySeq(work) /\ Pass(work)
  BY <1>2, PassTuples
<1>12. AnySeq(rest) /\ Pass(rest)
  BY <1>2, PassTuples
<1>13. AnySeq(typed) /\ (Pass(typed) <=> ~UncheckedByBuild("Recording", p))
  <2> DEFINE year == OfOption(LAMBDA y : InRange(y, YearRange), p.record_year)
             beat == OfOption(LAMBDA b : InRange(b, BpmRange), p.bpm)
             styled == Unless(p.sub_genre # None /\ p.genre = None, CrossFieldInconsistency)
             artist == ValidateParty(p.artist)
  <2>1. year = Ok <=> ~\E y \in Range(p.record_year) : y \notin YearRange
    BY <1>1, NumberRule
  <2>2. beat = Ok <=> ~\E b \in Range(p.bpm) : b \notin BpmRange
    BY <1>1, NumberRule
  <2>3. styled = Ok <=> ~(p.sub_genre # None /\ p.genre = None)
    BY DEF Unless, Ok, CrossFieldInconsistency
  <2>4. typed = << year, beat, styled, artist >> /\ artist = Ok
    BY <1>2
  <2> HIDE DEF typed, year, beat, styled, artist
  <2>5. /\ AnySeq(<< year, beat, styled, artist >>)
        /\ Pass(<< year, beat, styled, artist >>)
             <=> year = Ok /\ beat = Ok /\ styled = Ok /\ artist = Ok
    BY PassTuples, Zenon
  <2>6. UncheckedByBuild("Recording", p) <=> ~(year = Ok /\ beat = Ok /\ styled = Ok)
    BY <2>1, <2>2, <2>3 DEF UncheckedByBuild, Clash
  <2> QED BY <2>4, <2>5, <2>6
<1> HIDE DEF head, aliases, typed, featured, work, performed, produced, helped, rest
<1> DEFINE upTo1 == head \o aliases
           upTo2 == upTo1 \o typed
           upTo3 == upTo2 \o featured
           upTo4 == upTo3 \o work
           upTo5 == upTo4 \o performed
           upTo6 == upTo5 \o produced
           upTo7 == upTo6 \o helped
           all == upTo7 \o rest
<1>14. ValidateRecording(p) = FirstError(all)
  BY <1>4
<1>15. AnySeq(upTo1) /\ Pass(upTo1)
  BY <1>5, <1>6, PassBoth
<1>16. AnySeq(upTo2) /\ (Pass(upTo2) <=> Pass(typed))
  <2> HIDE DEF upTo1
  <2> QED BY <1>15, <1>13, PassBoth
<1>17. AnySeq(upTo3) /\ (Pass(upTo3) <=> Pass(typed))
  <2> HIDE DEF upTo2
  <2> QED BY <1>16, <1>7, PassBoth
<1>18. AnySeq(upTo4) /\ (Pass(upTo4) <=> Pass(typed))
  <2> HIDE DEF upTo3
  <2> QED BY <1>17, <1>11, PassBoth
<1>19. AnySeq(upTo5) /\ (Pass(upTo5) <=> Pass(typed))
  <2> HIDE DEF upTo4
  <2> QED BY <1>18, <1>8, PassBoth
<1>20. AnySeq(upTo6) /\ (Pass(upTo6) <=> Pass(typed))
  <2> HIDE DEF upTo5
  <2> QED BY <1>19, <1>9, PassBoth
<1>21. AnySeq(upTo7) /\ (Pass(upTo7) <=> Pass(typed))
  <2> HIDE DEF upTo6
  <2> QED BY <1>20, <1>10, PassBoth
<1>22. AnySeq(all) /\ (Pass(all) <=> Pass(typed))
  <2> HIDE DEF upTo7
  <2> QED BY <1>21, <1>12, PassBoth
<1> HIDE DEF all
<1> QED BY <1>13, <1>14, <1>22, PassFirst

LEMMA RecordingStorable ==
  ASSUME TypedInAscii, NEW d, IsDraft("Recording", d), NEW p, BuiltFrom("Recording", d, p)
  PROVE  ValidateRecording(p) = Ok <=> ~UncheckedByBuild("Recording", p)
<1>1. p.record_year \in Options(Years) /\ p.bpm \in Options(Bpms)
  <2>1. \A f \in {"record_year", "bpm"} : d[f] \in Options(FieldInputs("Recording", f))
    BY DEF IsDraft, Fields, FieldValues, Flags, Lists
  <2>2. /\ FieldInputs("Recording", "record_year") = Years
        /\ FieldInputs("Recording", "bpm") = Bpms
    BY DEF FieldInputs, IdKinds
  <2>3. p.record_year = d.record_year /\ p.bpm = d.bpm
    BY DEF BuiltFrom, TypedAlong
  <2> QED BY <2>1, <2>2, <2>3
<1>2. /\ ValidateIsrc(p.isrc) = Ok /\ NonEmpty(p.title) = Ok /\ ValidateParty(p.artist) = Ok
      /\ ValidateWorkRef(p.work) = Ok /\ OfOption(ValidatePlaces, p.places) = Ok
      /\ ValidateOffchain(p.offchain_extension) = Ok
  <2>1. \A f \in {"isrc", "title", "artist", "work", "places", "offchain_extension"} :
          ValueStored("Recording", f, p[f])
    <3>1. \A f \in {"isrc", "title", "artist", "work", "places", "offchain_extension"} :
            f \in BuiltFields("Recording") /\ f \notin Lists
      BY DEF BuiltFields, Fields, Flags, Lists
    <3> QED BY <3>1, ValueIsStored
  <2> QED BY <2>1 DEF ValueStored, IdKinds, Validate
<1>3. /\ AnySeq(p.title_aliases) /\ \A i \in DOMAIN p.title_aliases : NonEmpty(p.title_aliases[i]) = Ok
      /\ AnySeq(p.featuring) /\ \A i \in DOMAIN p.featuring : ValidateParty(p.featuring[i]) = Ok
      /\ AnySeq(p.performers)
      /\ \A i \in DOMAIN p.performers : ValidatePerformerId(p.performers[i]) = Ok
      /\ AnySeq(p.producers) /\ \A i \in DOMAIN p.producers : ValidateIsni(p.producers[i]) = Ok
      /\ AnySeq(p.contributors)
      /\ \A i \in DOMAIN p.contributors : ValidateParty(p.contributors[i]) = Ok
  <2>1. \A f \in {"title_aliases", "featuring", "performers", "producers", "contributors"} :
          AnySeq(p[f]) /\ \A i \in DOMAIN p[f] : ValueStored("Recording", f, p[f][i])
    <3>1. \A f \in {"title_aliases", "featuring", "performers", "producers", "contributors"} :
            f \in BuiltFields("Recording") /\ f \in Lists
      BY DEF BuiltFields, Fields, Flags, Lists
    <3> QED BY <3>1, ListStored
  <2> QED BY <2>1 DEF ValueStored, IdKinds
<1>4. RecordingSound(p, Years, Bpms)
  BY <1>1, <1>2, <1>3 DEF RecordingSound
<1> QED BY <1>4, RecordingRuling

LEMMA TracksRule ==
  ASSUME NEW s, AnySeq(s), \A i \in DOMAIN s : ValidateRecordingRef(s[i].recording) = Ok,
         NEW r, r = [i \in DOMAIN s |-> ValidateTrack(s, i)]
  PROVE  /\ AnySeq(r)
         /\ Pass(r) <=>
              ~(\/ \E i, j \in DOMAIN s : i # j /\ \/ s[i].number = s[j].number
                                                   \/ s[i].recording = s[j].recording
                \/ \E t \in Range(s) : t.number = 0)
<1> DEFINE same(i, j) == s[i].number = s[j].number \/ s[i].recording = s[j].recording
<1>1. DOMAIN s = 1..Len(s) /\ Len(s) \in Nat
  BY AnyIsSeq
<1>2. ASSUME NEW i \in DOMAIN s
      PROVE  r[i] = Ok <=> s[i].number # 0 /\ \A j \in 1..(i - 1) : ~same(j, i)
  <2> DEFINE numbered == Unless(s[i].number = 0, OutOfBounds)
             formed == ValidateRecordingRef(s[i].recording)
             fresh == Unless(\E j \in 1..(i - 1) : s[j].recording = s[i].recording,
                             CrossFieldInconsistency)
             placed == Unless(\E j \in 1..(i - 1) : s[j].number = s[i].number,
                              CrossFieldInconsistency)
  <2>1. r[i] = FirstError(<< numbered, formed, fresh, placed >>)
    BY DEF ValidateTrack
  <2>2. numbered = Ok <=> s[i].number # 0
    BY DEF Unless, Ok, OutOfBounds
  <2>3. fresh = Ok <=> ~\E j \in 1..(i - 1) : s[j].recording = s[i].recording
    BY DEF Unless, Ok, CrossFieldInconsistency
  <2>4. placed = Ok <=> ~\E j \in 1..(i - 1) : s[j].number = s[i].number
    BY DEF Unless, Ok, CrossFieldInconsistency
  <2>5. formed = Ok
    OBVIOUS
  <2> HIDE DEF numbered, formed, fresh, placed
  <2>6. /\ AnySeq(<< numbered, formed, fresh, placed >>)
        /\ Pass(<< numbered, formed, fresh, placed >>)
             <=> numbered = Ok /\ formed = Ok /\ fresh = Ok /\ placed = Ok
    BY PassTuples, Zenon
  <2>7. r[i] = Ok <=> numbered = Ok /\ formed = Ok /\ fresh = Ok /\ placed = Ok
    BY <2>1, <2>6, PassFirst
  <2> QED BY <2>2, <2>3, <2>4, <2>5, <2>7
<1>3. AnySeq(r) /\ (Pass(r) <=> \A i \in DOMAIN s : r[i] = Ok)
  <2>1. r = [i \in DOMAIN s |-> r[i]]
    OBVIOUS
  <2> QED BY <2>1, PassEach
<1>4. (\E t \in Range(s) : t.number = 0) <=> \E i \in DOMAIN s : s[i].number = 0
  BY DEF Range
<1>5. (\E i, j \in DOMAIN s : i # j /\ same(i, j))
        <=> \E i \in DOMAIN s : \E j \in 1..(i - 1) : same(j, i)
  <2>1. ASSUME NEW i \in DOMAIN s, NEW j \in DOMAIN s, i # j, same(i, j)
        PROVE  \E k \in DOMAIN s : \E l \in 1..(k - 1) : same(l, k)
    <3>1. same(j, i)
      BY <2>1
    <3> HIDE DEF same
    <3>2. i \in 1..(j - 1) \/ j \in 1..(i - 1)
      BY <1>1, <2>1
    <3> QED BY <2>1, <3>1, <3>2
  <2>2. ASSUME NEW i \in DOMAIN s, NEW j \in 1..(i - 1), same(j, i)
        PROVE  \E k, l \in DOMAIN s : k # l /\ same(k, l)
    <3>1. j \in DOMAIN s /\ j # i
      BY <1>1
    <3> HIDE DEF same
    <3> QED BY <2>2, <3>1
  <2> QED BY <2>1, <2>2
<1>6. Pass(r) <=> /\ ~\E i, j \in DOMAIN s : i # j /\ same(i, j)
                  /\ ~\E t \in Range(s) : t.number = 0
  <2> HIDE DEF same
  <2> QED BY <1>2, <1>3, <1>4, <1>5
<1> QED BY <1>3, <1>6

\* The same of a release.
ReleaseSound(p) ==
  /\ ValidateUpc(p.upc) = Ok /\ NonEmpty(p.title) = Ok /\ ValidateParty(p.artist) = Ok
  /\ NonEmpty(p.distributor_name) = Ok /\ ValidateOffchain(p.offchain_extension) = Ok
  /\ AnySeq(p.title_aliases) /\ \A i \in DOMAIN p.title_aliases : NonEmpty(p.title_aliases[i]) = Ok
  /\ AnySeq(p.featuring) /\ \A i \in DOMAIN p.featuring : ValidateParty(p.featuring[i]) = Ok
  /\ AnySeq(p.tracks)
  /\ \A i \in DOMAIN p.tracks : ValidateRecordingRef(p.tracks[i].recording) = Ok
  /\ AnySeq(p.producers) /\ \A i \in DOMAIN p.producers : ValidateProducer(p.producers[i]) = Ok
  /\ AnySeq(p.cover_contributors)
  /\ \A i \in DOMAIN p.cover_contributors : NonEmpty(p.cover_contributors[i]) = Ok
  /\ p.tracks # <<>>

LEMMA ReleaseRuling ==
  ASSUME NEW p, ReleaseSound(p)
  PROVE  ValidateRelease(p) = Ok <=> ~UncheckedByBuild("Release", p)
<1>2. /\ ValidateUpc(p.upc) = Ok /\ NonEmpty(p.title) = Ok /\ ValidateParty(p.artist) = Ok
      /\ NonEmpty(p.distributor_name) = Ok /\ ValidateOffchain(p.offchain_extension) = Ok
  BY DEF ReleaseSound
<1>3. /\ AnySeq(p.title_aliases) /\ \A i \in DOMAIN p.title_aliases : NonEmpty(p.title_aliases[i]) = Ok
      /\ AnySeq(p.featuring) /\ \A i \in DOMAIN p.featuring : ValidateParty(p.featuring[i]) = Ok
      /\ AnySeq(p.tracks)
      /\ \A i \in DOMAIN p.tracks : ValidateRecordingRef(p.tracks[i].recording) = Ok
      /\ AnySeq(p.producers) /\ \A i \in DOMAIN p.producers : ValidateProducer(p.producers[i]) = Ok
      /\ AnySeq(p.cover_contributors)
      /\ \A i \in DOMAIN p.cover_contributors : NonEmpty(p.cover_contributors[i]) = Ok
  BY DEF ReleaseSound
<1>4. p.tracks # <<>>
  BY DEF ReleaseSound
<1> DEFINE head == << ValidateUpc(p.upc), NonEmpty(p.title) >>
           aliases == [i \in DOMAIN p.title_aliases |-> NonEmpty(p.title_aliases[i])]
           artist == << ValidateParty(p.artist) >>
           featured == [i \in DOMAIN p.featuring |-> ValidateParty(p.featuring[i])]
           some == << Unless(p.tracks = <<>>, EmptyMandatoryField) >>
           tracked == [i \in DOMAIN p.tracks |-> ValidateTrack(p.tracks, i)]
           produced == [i \in DOMAIN p.producers |-> ValidateProducer(p.producers[i])]
           dated == << ValidateDate(p.release_date), NonEmpty(p.distributor_name) >>
           covers == [i \in DOMAIN p.cover_contributors |-> NonEmpty(p.cover_contributors[i])]
           rest == << ValidateOffchain(p.offchain_extension) >>
<1>5. ValidateRelease(p) =
        FirstError(head \o aliases \o artist \o featured \o some \o tracked \o produced \o dated
                   \o covers \o rest)
  BY DEF ValidateRelease, Each
<1>6. AnySeq(head) /\ Pass(head)
  BY <1>2, PassTuples
<1>7. AnySeq(aliases) /\ Pass(aliases)
  <2>1. aliases = [i \in DOMAIN p.title_aliases |-> aliases[i]]
        /\ \A i \in DOMAIN p.title_aliases : aliases[i] = Ok
    BY <1>3
  <2> HIDE DEF aliases
  <2> QED BY <1>3, <2>1, EachPassed
<1>8. AnySeq(featured) /\ Pass(featured)
  <2>1. featured = [i \in DOMAIN p.featuring |-> featured[i]]
        /\ \A i \in DOMAIN p.featuring : featured[i] = Ok
    BY <1>3
  <2> HIDE DEF featured
  <2> QED BY <1>3, <2>1, EachPassed
<1>9. AnySeq(produced) /\ Pass(produced)
  <2>1. produced = [i \in DOMAIN p.producers |-> produced[i]]
        /\ \A i \in DOMAIN p.producers : produced[i] = Ok
    BY <1>3
  <2> HIDE DEF produced
  <2> QED BY <1>3, <2>1, EachPassed
<1>10. AnySeq(covers) /\ Pass(covers)
  <2>1. covers = [i \in DOMAIN p.cover_contributors |-> covers[i]]
        /\ \A i \in DOMAIN p.cover_contributors : covers[i] = Ok
    BY <1>3
  <2> HIDE DEF covers
  <2> QED BY <1>3, <2>1, EachPassed
<1>11. AnySeq(artist) /\ Pass(artist) /\ AnySeq(rest) /\ Pass(rest)
  BY <1>2, PassTuples
<1>12. AnySeq(some) /\ Pass(some)
  <2>1. Unless(p.tracks = <<>>, EmptyMandatoryField) = Ok
    BY <1>4 DEF Unless
  <2> QED BY <2>1, PassTuples
<1>13. /\ AnySeq(dated)
       /\ Pass(dated) <=> ~(p.release_date.month \notin 1..12 \/ p.release_date.day \notin 1..31)
  <2> DEFINE date == ValidateDate(p.release_date)
             seller == NonEmpty(p.distributor_name)
  <2>1. date = Ok <=> ~(p.release_date.month \notin 1..12 \/ p.release_date.day \notin 1..31)
    BY DEF ValidateDate, Unless, Ok, OutOfBounds
  <2>2. seller = Ok /\ dated = << date, seller >>
    BY <1>2
  <2> HIDE DEF date, seller, dated
  <2>3. AnySeq(<< date, seller >>) /\ (Pass(<< date, seller >>) <=> date = Ok /\ seller = Ok)
    BY PassTuples, Zenon
  <2> QED BY <2>1, <2>2, <2>3
<1>14. /\ AnySeq(tracked)
       /\ Pass(tracked) <=>
            ~(\/ \E i, j \in DOMAIN p.tracks :
                   i # j /\ \/ p.tracks[i].number = p.tracks[j].number
                            \/ p.tracks[i].recording = p.tracks[j].recording
              \/ \E t \in Range(p.tracks) : t.number = 0)
  BY <1>3, TracksRule
<1>15. ~UncheckedByBuild("Release", p) <=> Pass(tracked) /\ Pass(dated)
  BY <1>13, <1>14 DEF UncheckedByBuild, Clash
<1> HIDE DEF head, aliases, artist, featured, some, tracked, produced, dated, covers, rest
<1> DEFINE upTo1 == head \o aliases
           upTo2 == upTo1 \o artist
           upTo3 == upTo2 \o featured
           upTo4 == upTo3 \o some
           upTo5 == upTo4 \o tracked
           upTo6 == upTo5 \o produced
           upTo7 == upTo6 \o dated
           upTo8 == upTo7 \o covers
           all == upTo8 \o rest
<1>16. ValidateRelease(p) = FirstError(all)
  BY <1>5
<1>17. AnySeq(upTo1) /\ Pass(upTo1)
  BY <1>6, <1>7, PassBoth
<1>18. AnySeq(upTo2) /\ Pass(upTo2)
  <2> HIDE DEF upTo1
  <2> QED BY <1>17, <1>11, PassBoth
<1>19. AnySeq(upTo3) /\ Pass(upTo3)
  <2> HIDE DEF upTo2
  <2> QED BY <1>18, <1>8, PassBoth
<1>20. AnySeq(upTo4) /\ Pass(upTo4)
  <2> HIDE DEF upTo3
  <2> QED BY <1>19, <1>12, PassBoth
<1>21. AnySeq(upTo5) /\ (Pass(upTo5) <=> Pass(tracked))
  <2> HIDE DEF upTo4
  <2> QED BY <1>20, <1>14, PassBoth
<1>22. AnySeq(upTo6) /\ (Pass(upTo6) <=> Pass(tracked))
  <2> HIDE DEF upTo5
  <2> QED BY <1>21, <1>9, PassBoth
<1>23. AnySeq(upTo7) /\ (Pass(upTo7) <=> Pass(tracked) /\ Pass(dated))
  <2> HIDE DEF upTo6
  <2> QED BY <1>22, <1>13, PassBoth
<1>24. AnySeq(upTo8) /\ (Pass(upTo8) <=> Pass(tracked) /\ Pass(dated))
  <2> HIDE DEF upTo7
  <2> QED BY <1>23, <1>10, PassBoth
<1>25. AnySeq(all) /\ (Pass(all) <=> Pass(tracked) /\ Pass(dated))
  <2> HIDE DEF upTo8
  <2> QED BY <1>24, <1>11, PassBoth
<1> HIDE DEF all
<1> QED BY <1>15, <1>16, <1>25, PassFirst

LEMMA ReleaseStorable ==
  ASSUME TypedInAscii, NEW d, IsDraft("Release", d), d.tracks # <<>>,
         NEW p, BuiltFrom("Release", d, p)
  PROVE  ValidateRelease(p) = Ok <=> ~UncheckedByBuild("Release", p)
<1>2. /\ ValidateUpc(p.upc) = Ok /\ NonEmpty(p.title) = Ok /\ ValidateParty(p.artist) = Ok
      /\ NonEmpty(p.distributor_name) = Ok /\ ValidateOffchain(p.offchain_extension) = Ok
  <2>1. \A f \in {"upc", "title", "artist", "distributor_name", "offchain_extension"} :
          ValueStored("Release", f, p[f])
    <3>1. \A f \in {"upc", "title", "artist", "distributor_name", "offchain_extension"} :
            f \in BuiltFields("Release") /\ f \notin Lists
      BY DEF BuiltFields, Fields, Flags, Lists
    <3> QED BY <3>1, ValueIsStored
  <2> QED BY <2>1 DEF ValueStored, IdKinds, Validate
<1>3. /\ AnySeq(p.title_aliases) /\ \A i \in DOMAIN p.title_aliases : NonEmpty(p.title_aliases[i]) = Ok
      /\ AnySeq(p.featuring) /\ \A i \in DOMAIN p.featuring : ValidateParty(p.featuring[i]) = Ok
      /\ AnySeq(p.tracks) /\ DOMAIN p.tracks = DOMAIN d.tracks
      /\ \A i \in DOMAIN p.tracks : ValidateRecordingRef(p.tracks[i].recording) = Ok
      /\ AnySeq(p.producers) /\ \A i \in DOMAIN p.producers : ValidateProducer(p.producers[i]) = Ok
      /\ AnySeq(p.cover_contributors)
      /\ \A i \in DOMAIN p.cover_contributors : NonEmpty(p.cover_contributors[i]) = Ok
  <2>1. \A f \in {"title_aliases", "featuring", "tracks", "producers", "cover_contributors"} :
          /\ AnySeq(p[f]) /\ DOMAIN p[f] = DOMAIN d[f]
          /\ \A i \in DOMAIN p[f] : ValueStored("Release", f, p[f][i])
    <3>1. \A f \in {"title_aliases", "featuring", "tracks", "producers", "cover_contributors"} :
            f \in BuiltFields("Release") /\ f \in Lists
      BY DEF BuiltFields, Fields, Flags, Lists
    <3> QED BY <3>1, ListStored
  <2> QED BY <2>1 DEF ValueStored, IdKinds
<1>4. p.tracks # <<>>
  <2>1. d["tracks"] \in Seq(FieldInputs("Release", "tracks"))
    BY DraftList DEF Fields, Lists
  <2> QED BY <2>1, <1>3, StillNotEmpty
<1>5. ReleaseSound(p)
  BY <1>2, <1>3, <1>4 DEF ReleaseSound
<1> QED BY <1>5, ReleaseRuling

LEMMA BuildStorable ==
  ASSUME TypedInAscii, NEW k \in MiddsKinds, NEW d, IsDraft(k, d), Build(k, d).status = "built"
  PROVE  LET p == Build(k, d).payload[1] IN ValidateFormat(k, p) = Ok <=> ~UncheckedByBuild(k, p)
<1> DEFINE p == Build(k, d).payload[1]
<1>1. BuiltFrom(k, d, p)
  BY BuildReports DEF Reports
<1>2. k = "MusicalWork" => d.creators # <<>>
  <2> SUFFICES ASSUME k = "MusicalWork", d.creators = <<>> PROVE FALSE
    OBVIOUS
  <2>1. WorkMandatory[3] = "creators" /\ 3 \in DOMAIN WorkMandatory
    BY DEF WorkMandatory
  <2>2. Missing(d, WorkMandatory)
    BY <2>1 DEF Missing
  <2>3. Build(k, d).status = "missing"
    BY <2>2 DEF Build, BuildWork, ReportMissing
  <2> QED BY <2>3
<1>3. k = "Release" => d.tracks # <<>>
  <2> SUFFICES ASSUME k = "Release", d.tracks = <<>> PROVE FALSE
    OBVIOUS
  <2>1. ReleaseMandatory[7] = "tracks" /\ 7 \in DOMAIN ReleaseMandatory
    BY DEF ReleaseMandatory
  <2>2. Missing(d, ReleaseMandatory)
    BY <2>1 DEF Missing
  <2>3. Build(k, d).status = "missing"
    BY <2>2 DEF Build, BuildRelease, ReportMissing
  <2> QED BY <2>3
<1> HIDE DEF p
<1>4. CASE k = "MusicalWork"
  <2>1. ValidateFormat(k, p) = ValidateWork(p)
    BY <1>4 DEF ValidateFormat
  <2> QED BY <1>1, <1>2, <1>4, <2>1, WorkStorable DEF p
<1>5. CASE k = "Recording"
  <2>1. ValidateFormat(k, p) = ValidateRecording(p)
    BY <1>5 DEF ValidateFormat
  <2> QED BY <1>1, <1>5, <2>1, RecordingStorable DEF p
<1>6. CASE k = "Release"
  <2>1. ValidateFormat(k, p) = ValidateRelease(p)
    BY <1>6 DEF ValidateFormat
  <2> QED BY <1>1, <1>3, <1>6, <2>1, ReleaseStorable DEF p
<1> QED BY <1>4, <1>5, <1>6 DEF MiddsKinds

\* The chain refuses a payload that build() returned for a reason build() does
\* not look at, and for no other: a range of a typed number, a code of a work
\* type or a rule between fields.  With identifiers in ASCII: a digit outside
\* it passes the parsers of IPI and IPN and fails on the chain.
THEOREM BuiltAlwaysStorable ==
  ASSUME TypedInAscii PROVE Spec => []BuiltIsStorable
<1>1. DraftInv => BuiltIsStorable
  <2> SUFFICES ASSUME DraftInv, Built PROVE BuiltIsStorable
    BY DEF BuiltIsStorable
  <2>1. kind \in MiddsKinds /\ IsDraft(kind, entry) /\ outcome = Build(kind, entry)
        /\ outcome.status = "built"
    BY DEF DraftInv, Editing, Built
  <2> QED BY <2>1, BuildStorable DEF BuiltIsStorable
<1> QED BY <1>1, DraftsAlways, PTL

-----------------------------------------------------------------------------
(* The sessions with a single identifier.                                  *)

\* The inductive invariant: the text is the one that was meant, or that with
\* one slip in it.
LintInv ==
  session = "lint" =>
    /\ kind \in IdKinds /\ outcome = Editing
    /\ entry = [base |-> entry.base, text |-> entry.text]
    /\ entry.base \in RawCodes[kind] /\ entry.base \in Codes /\ entry.text \in Codes
    /\ entry.text = entry.base \/ IsSlip(entry.base, entry.text)
    /\ step = 1 => entry.text = entry.base

LEMMA InitLints == Init => LintInv
<1> SUFFICES ASSUME Init, session = "lint" PROVE LintInv
  BY DEF LintInv
<1>1. InitLint /\ outcome = Editing
  BY DEF Init, InitWizard, InitBuilder, InitFixture
<1>2. PICK raw \in RawCodes[kind] : entry = [base |-> raw, text |-> raw]
  BY <1>1 DEF InitLint
<1>3. kind \in IdKinds /\ raw \in Codes
  BY <1>1, InputsAssumption DEF InitLint
<1>4. entry.base = raw /\ entry.text = raw
  BY <1>2
<1> QED BY <1>1, <1>2, <1>3, <1>4 DEF LintInv

LEMMA NextLints == LintInv /\ [Next]_vars => LintInv'
<1> SUFFICES ASSUME LintInv, [Next]_vars, session' = "lint" PROVE LintInv'
  BY DEF LintInv
<1>0. session = "lint"
  BY DEF Next, vars, Call, CallBuild, Answer, Submit, ReenterForm, Abort, Finish,
         MistypeCharacter, DropCharacter, Generate, Spoil
<1>1. /\ kind \in IdKinds /\ outcome = Editing
      /\ entry = [base |-> entry.base, text |-> entry.text]
      /\ entry.base \in RawCodes[kind] /\ entry.base \in Codes /\ entry.text \in Codes
      /\ entry.text = entry.base \/ IsSlip(entry.base, entry.text)
      /\ step = 1 => entry.text = entry.base
  BY <1>0 DEF LintInv
<1> DEFINE base == entry.base
           n == Len(entry.base)
           Typed(text) == /\ kind' = kind /\ outcome' = outcome /\ step' = 2
                          /\ entry' = [base |-> base, text |-> text]
<1>2. ASSUME NEW text \in Codes, IsSlip(base, text), Typed(text)
      PROVE LintInv'
  <2>1. entry'.base = base /\ entry'.text = text
    BY <1>2
  <2>2. Editing' = Editing
    BY DEF Editing
  <2>3. step' # 1
    BY <1>2
  <2>4. IsSlip(entry'.base, entry'.text)
    BY <1>2, <2>1
  <2>5. kind' \in IdKinds /\ outcome' = Editing
    BY <1>1, <1>2
  <2>6. entry' = [base |-> entry'.base, text |-> entry'.text]
    BY <1>2, <2>1
  <2>7. entry'.base \in RawCodes[kind'] /\ entry'.base \in Codes /\ entry'.text \in Codes
    BY <1>1, <1>2, <2>1
  <2> QED BY <2>2, <2>3, <2>4, <2>5, <2>6, <2>7 DEF LintInv
<1>3. CASE MistypeCharacter
  <2>1. PICK i \in DOMAIN entry.text, c \in Typos :
          entry' = [entry EXCEPT !.text = [entry.text EXCEPT ![i] = c]]
    BY <1>3 DEF MistypeCharacter
  <2>2. step = 1 /\ entry.text = base
    BY <1>1, <1>3 DEF MistypeCharacter
  <2> DEFINE text == [base EXCEPT ![i] = c]
  <2>3. Typed(text)
    BY <1>1, <1>3, <2>1, <2>2 DEF MistypeCharacter
  <2>4. base \in Seq(Characters) /\ i \in DOMAIN base /\ c \in Characters
    BY <1>1, <2>1, <2>2, EntryAssumption DEF Codes
  <2> HIDE DEF base
  <2>5. text \in Codes
    BY <2>4 DEF Codes
  <2>6. IsSlip(base, text)
    BY <2>4, SlipOfReplaced DEF IsSlip
  <2> HIDE DEF text, Typed
  <2> QED BY <1>2, <2>3, <2>5, <2>6
<1>4. CASE DropCharacter
  <2>1. PICK i \in DOMAIN entry.text :
          entry' = [entry EXCEPT !.text = RemoveAt(entry.text, i)]
    BY <1>4 DEF DropCharacter
  <2>2. step = 1 /\ entry.text = base
    BY <1>1, <1>4 DEF DropCharacter
  <2> DEFINE text == RemoveAt(base, i)
  <2>3. Typed(text)
    BY <1>1, <1>4, <2>1, <2>2 DEF DropCharacter
  <2>4. base \in Seq(Characters) /\ i \in DOMAIN base
    BY <1>1, <2>1, <2>2 DEF Codes
  <2> HIDE DEF base
  <2>5. IsSlip(base, text)
    BY <2>4, SlipOfRemoved DEF IsSlip
  <2>6. text \in Codes
    BY <2>5, JoinType DEF IsSlip, Slip, Codes
  <2> HIDE DEF text, Typed
  <2> QED BY <1>2, <2>3, <2>5, <2>6
<1>5. CASE Call \/ CallBuild \/ Answer \/ Submit \/ Generate \/ Spoil
  BY <1>0, <1>5 DEF Call, CallBuild, Answer, Submit, Generate, Spoil
<1>6. CASE ReenterForm \/ Abort \/ Finish
  BY <1>1, <1>6 DEF ReenterForm, Abort, Finish, Editing
<1>7. CASE UNCHANGED vars
  <2>1. UNCHANGED <<session, kind, entry, step, outcome>>
    BY <1>7 DEF vars
  <2>2. Editing' = Editing
    BY DEF Editing
  <2> QED BY <1>1, <2>1, <2>2 DEF LintInv
<1> QED BY <1>3, <1>4, <1>5, <1>6, <1>7 DEF Next

\* In every session of a single identifier: the text typed is a slip away from one of
\* the raw codes, and both are sequences of characters.
THEOREM LintsAlways == Spec => []LintInv
  BY InitLints, NextLints, PTL DEF Spec

\* Whatever the text and the slip: an ISNI or a UPC that was good and is
\* mistyped in one place fails its check digit, if it still reads as one.
THEOREM SlipsAlwaysCaught == Spec => []SlipsAreCaught
<1>1. LintInv => SlipsAreCaught
  <2> DEFINE good == Parse(kind, entry.base)
             typed == Parse(kind, entry.text)
  <2> SUFFICES ASSUME LintInv, session = "lint", kind \in {"isni", "upc"},
                      good # None, typed # None, typed # good,
                      Len(typed[1]) = Len(good[1]), Verify(kind, good[1]) = "Pass"
               PROVE  Verify(kind, typed[1]) = "Fail"
    BY DEF SlipsAreCaught
  <2>1. entry.base \in Seq(Characters) /\ entry.text \in Seq(Characters)
        /\ IsSlip(entry.base, entry.text)
    BY DEF LintInv, Codes
  <2>2. CASE kind = "isni"
    <3>1. good = ParseIsni(entry.base) /\ typed = ParseIsni(entry.text)
          /\ Verify(kind, good[1]) = VerifyIsni(good[1])
          /\ Verify(kind, typed[1]) = VerifyIsni(typed[1])
      BY <2>2 DEF Parse, Verify
    <3> QED BY <2>1, <3>1, IsniSlipCaught
  <2>3. CASE kind = "upc"
    <3>1. good = ParseUpc(entry.base) /\ typed = ParseUpc(entry.text)
          /\ Verify(kind, good[1]) = VerifyUpc(good[1])
          /\ Verify(kind, typed[1]) = VerifyUpc(typed[1])
      BY <2>3 DEF Parse, Verify
    <3> QED BY <2>1, <3>1, UpcSlipCaught
  <2> QED BY <2>2, <2>3
<1> QED BY <1>1, LintsAlways, PTL

AsciiInv == session = "lint" => {entry.base, entry.text} \subseteq Seq(AsciiCharacters)

LEMMA InitAscii == ASSUME TypedInAscii, Init PROVE AsciiInv
<1> SUFFICES ASSUME session = "lint" PROVE {entry.base, entry.text} \subseteq Seq(AsciiCharacters)
  BY DEF AsciiInv
<1>1. InitLint
  BY DEF Init, InitWizard, InitBuilder, InitFixture
<1>2. PICK raw \in RawCodes[kind] : entry = [base |-> raw, text |-> raw]
  BY <1>1 DEF InitLint
<1>3. kind \in IdKinds
  BY <1>1 DEF InitLint
<1> QED BY <1>2, <1>3 DEF TypedInAscii

LEMMA NextAscii ==
  ASSUME TypedInAscii, LintInv, AsciiInv, [Next]_vars
  PROVE  AsciiInv'
<1> DEFINE T == AsciiCharacters
<1> SUFFICES ASSUME session' = "lint" PROVE {entry'.base, entry'.text} \subseteq Seq(T)
  BY DEF AsciiInv
<1>0. session = "lint"
  BY DEF Next, vars, Call, CallBuild, Answer, Submit, ReenterForm, Abort, Finish,
         MistypeCharacter, DropCharacter, Generate, Spoil
<1>1. /\ entry.base \in Seq(T) /\ entry.text \in Seq(T) /\ outcome = Editing
      /\ entry = [base |-> entry.base, text |-> entry.text]
  BY <1>0 DEF AsciiInv, LintInv
<1> HIDE DEF T
<1>2. CASE MistypeCharacter
  <2>1. PICK i \in DOMAIN entry.text, c \in Typos :
          entry' = [entry EXCEPT !.text = [entry.text EXCEPT ![i] = c]]
    BY <1>2 DEF MistypeCharacter
  <2>2. c \in T
    BY DEF TypedInAscii, T
  <2>3. [entry.text EXCEPT ![i] = c] \in Seq(T)
    BY <1>1, <2>2
  <2>4. entry'.base = entry.base /\ entry'.text = [entry.text EXCEPT ![i] = c]
    BY <1>1, <2>1
  <2> QED BY <1>1, <2>3, <2>4
<1>3. CASE DropCharacter
  <2>1. PICK i \in DOMAIN entry.text :
          entry' = [entry EXCEPT !.text = RemoveAt(entry.text, i)]
    BY <1>3 DEF DropCharacter
  <2>2. PICK x \in Seq(T), p \in Seq(T), q \in Seq(T), y \in Seq(T) :
          Slip(entry.text, RemoveAt(entry.text, i), x, p, q, y)
    BY <1>1, SlipOfRemoved
  <2>3. RemoveAt(entry.text, i) \in Seq(T)
    BY <2>2, JoinType DEF Slip
  <2>4. entry'.base = entry.base /\ entry'.text = RemoveAt(entry.text, i)
    BY <1>1, <2>1
  <2> QED BY <1>1, <2>3, <2>4
<1>4. CASE Call \/ CallBuild \/ Answer \/ Submit \/ Generate \/ Spoil
  BY <1>0, <1>4 DEF Call, CallBuild, Answer, Submit, Generate, Spoil
<1>5. CASE ReenterForm \/ Abort \/ Finish
  BY <1>1, <1>5 DEF ReenterForm, Abort, Finish, Editing
<1>6. CASE UNCHANGED vars
  BY <1>1, <1>6 DEF vars
<1> QED BY <1>2, <1>3, <1>4, <1>5, <1>6 DEF Next

\* What every parser returns for a text in ASCII is valid on the chain and
\* parses to itself, whatever the text and the slip in it.  Digits outside
\* ASCII make IPI and IPN fall short of that.
THEOREM ParsedAlwaysCanonical ==
  ASSUME TypedInAscii PROVE Spec => []ParsedIsCanonical
<1>1. LintInv /\ AsciiInv => ParsedIsCanonical
  <2> DEFINE parsed == Parse(kind, entry.text)
  <2> SUFFICES ASSUME LintInv, AsciiInv, session = "lint", parsed # None
               PROVE  Validate(kind, parsed[1]) = Ok /\ Parse(kind, parsed[1]) = parsed
    BY DEF ParsedIsCanonical
  <2>1. kind \in IdKinds /\ entry.text \in Seq(Characters) /\ entry.text \in Seq(AsciiCharacters)
    BY DEF LintInv, AsciiInv, Codes
  <2>2. Ascii(entry.text)
    <3>1. \A i \in DOMAIN entry.text : entry.text[i] \in AsciiCharacters
      BY <2>1
    <3> QED BY <3>1 DEF Ascii, AsciiCharacters
  <2>3. Canonical(kind, entry.text)
    BY <2>1, <2>2, ParsersCanonical
  <2>4. PICK k \in Seq(Inked) :
          parsed = Some(k) /\ Validate(kind, k) = Ok /\ Parse(kind, k) = Some(k)
    BY <2>3 DEF Canonical
  <2> HIDE DEF parsed
  <2>5. parsed[1] = k
    BY <2>4 DEF Some
  <2> QED BY <2>4, <2>5
<1>2. Init => AsciiInv
  BY InitAscii
<1>3. LintInv /\ AsciiInv /\ [Next]_vars => AsciiInv'
  BY NextAscii
<1> QED BY <1>1, <1>2, <1>3, LintsAlways, PTL DEF Spec

-----------------------------------------------------------------------------
(* The test builders' records.                                             *)

LEMMA DecimalsType ==
  ASSUME NEW n \in Nat, NEW size \in Nat
  PROVE  Decimals(n, size) \in Seq(Digits) /\ Len(Decimals(n, size)) = size
<1> DEFINE digit(i) == IF size - i > 9 THEN 0 ELSE (n \div 10^(size - i)) % 10
<1>1. ASSUME NEW i \in 1..size PROVE digit(i) \in Digits
  <2> DEFINE k == size - i
  <2>1. k \in Nat
    OBVIOUS
  <2>2. CASE k > 9
    BY <2>2 DEF Digits
  <2>3. CASE ~(k > 9)
    <3>1. digit(i) = (n \div 10^k) % 10
      BY <2>3
    <3> HIDE DEF k, digit
    <3>2. (n \div 10^k) % 10 \in 0..9
      BY <2>1
    <3> QED BY <3>1, <3>2 DEF Digits
  <2> QED BY <2>2, <2>3
<1>2. Decimals(n, size) = [i \in 1..size |-> digit(i)]
  BY DEF Decimals
<1> HIDE DEF digit
<1> QED BY <1>1, <1>2

LEMMA CheckIsDigit ==
  ASSUME NEW s \in Seq(Digits)
  PROVE  CisacCheck(s) \in Digits
<1> DEFINE g == [i \in DOMAIN s |-> s[i] * i]
<1>1. DOMAIN s = 1..Len(s) /\ Len(s) \in Nat
  OBVIOUS
<1>2. IsFiniteSet(DOMAIN s)
  BY <1>1, FS_Interval
<1>3. ASSUME NEW i \in DOMAIN s PROVE g[i] \in Int
  <2>1. s[i] \in Nat /\ i \in Nat
    BY <1>1 DEF Digits
  <2> QED BY <2>1
<1>4. DOMAIN g = DOMAIN s
  OBVIOUS
<1> HIDE DEF g
<1>5. SumFunctionOnSet(g, DOMAIN s) \in Int
  BY <1>2, <1>3, SumInt
<1>6. SumFunction(g) \in Int
  BY <1>4, <1>5 DEF SumFunction, SumFunctionOnSet, FoldFunction
<1>7. CisacCheck(s) = (10 - (SumFunction(g) % 10)) % 10
  BY DEF CisacCheck, Complement10, g
<1> QED BY <1>6, <1>7 DEF Digits

LEMMA GtinIsDigit ==
  ASSUME NEW s \in Seq(Digits)
  PROVE  GtinCheckDigit(s) \in Digits
<1> DEFINE g == [i \in DOMAIN s |-> s[i] * (IF i % 2 = 1 THEN 1 ELSE 3)]
<1>1. DOMAIN s = 1..Len(s) /\ Len(s) \in Nat
  OBVIOUS
<1>2. IsFiniteSet(DOMAIN s)
  BY <1>1, FS_Interval
<1>3. ASSUME NEW i \in DOMAIN s PROVE g[i] \in Int
  <2>1. s[i] \in Nat
    BY <1>1 DEF Digits
  <2>2. g[i] = s[i] * 1 \/ g[i] = s[i] * 3
    OBVIOUS
  <2> HIDE DEF g
  <2> QED BY <2>1, <2>2
<1>4. DOMAIN g = DOMAIN s
  OBVIOUS
<1> HIDE DEF g
<1>5. SumFunctionOnSet(g, DOMAIN s) \in Int
  BY <1>2, <1>3, SumInt
<1>6. SumFunction(g) \in Int
  BY <1>4, <1>5 DEF SumFunction
<1>7. GtinCheckDigit(s) = (10 - (SumFunction(g) % 10)) % 10
  BY DEF GtinCheckDigit, Complement10, g
<1> QED BY <1>6, <1>7 DEF Digits

\* Each of a sequence's digits is one.
LEMMA DigitAt ==
  ASSUME NEW s \in Seq(Digits), NEW n \in Nat, Len(s) = n
  PROVE  \A j \in 1..n : s[j] \in Digits
  OBVIOUS

\* Digits and a check digit.
LEMMA OneMoreDigit ==
  ASSUME NEW s \in Seq(Digits), NEW c \in Digits
  PROVE  Append(s, c) \in Seq(Digits) /\ Len(Append(s, c)) = Len(s) + 1
  OBVIOUS

LEMMA GeneratedIpi ==
  ASSUME NEW n \in Nat, NEW size \in 9..11
  PROVE  ValidateIpi(IpiFromStem(n, size)) = Ok
<1> DEFINE digits == Decimals(n, size)
           stem == Front(digits)
<1>1. digits \in Seq(Digits) /\ Len(digits) = size /\ size \in Nat
  BY DecimalsType
<1> HIDE DEF digits
<1>2. stem \in Seq(Digits) /\ Len(stem) = size - 1
  BY <1>1 DEF Front
<1>3. IpiFromStem(n, size) = Append(stem, CisacCheck(stem))
  BY DEF IpiFromStem, digits
<1> HIDE DEF stem
<1>4. CisacCheck(stem) \in Digits
  BY <1>2, CheckIsDigit
<1> DEFINE code == Append(stem, CisacCheck(stem))
<1>5. code \in Seq(Digits) /\ Len(code) = Len(stem) + 1
  BY <1>2, <1>4, OneMoreDigit
<1> HIDE DEF code
<1>6. Len(code) \in 9..11
  BY <1>2, <1>5
<1>7. ValidateDigits(code, 9..11) = Ok
  BY <1>5, <1>6, PaddedValid
<1> QED BY <1>3, <1>7 DEF ValidateIpi, code

LEMMA GeneratedUpc ==
  ASSUME NEW n \in Nat
  PROVE  ValidateUpc(UpcForIndex(n)) = Ok
<1> DEFINE digits == Decimals(n, 12)
           last == GtinCheckDigit(digits)
           code == Append(digits, last)
<1>1. digits \in Seq(Digits) /\ Len(digits) = 12
  BY DecimalsType
<1>2. UpcForIndex(n) = code
  BY DEF UpcForIndex
<1> HIDE DEF digits
<1>3. last \in Digits
  BY <1>1, GtinIsDigit
<1> HIDE DEF last
<1>3a. code \in Seq(Digits) /\ Len(code) = Len(digits) + 1
  BY <1>1, <1>3, OneMoreDigit, Zenon
<1> HIDE DEF code
<1>4. code \in Seq(Digits) /\ Len(code) = 13
  BY <1>1, <1>3a
<1>5. ValidateDigits(code, {12, 13}) = Ok
  BY <1>4, PaddedValid
<1> QED BY <1>2, <1>5 DEF ValidateUpc

\* "T", the digits of the work and a check digit.
LEMMA GeneratedIswc ==
  ASSUME NEW n \in Nat
  PROVE  ValidateIswc(IswcFromWorkCode(n)) = Ok
<1> DEFINE work == n % 1000000000
           digits == Decimals(work, 9)
           first == << LetterT >>
           last == << CisacCheck(digits) >>
<1>1. digits \in Seq(Digits) /\ Len(digits) = 9
  <2>1. work \in Nat
    BY SMT
  <2> HIDE DEF work
  <2> QED BY <2>1, DecimalsType
<1>2. IswcFromWorkCode(n) = Join(Join(first, digits), last)
  BY SMT DEF IswcFromWorkCode, Join
<1> HIDE DEF work, digits
<1>3. CisacCheck(digits) \in Digits
  BY <1>1, CheckIsDigit
<1>4. Digits \subseteq Inked /\ LetterT \in Inked
  BY DEF Inked, Digits, Upper, LetterT
<1>5. /\ first \in Seq(Inked) /\ Len(first) = 1 /\ first[1] = LetterT
      /\ last \in Seq(Inked) /\ Len(last) = 1 /\ last[1] \in Digits
      /\ digits \in Seq(Inked)
  BY <1>1, <1>3, <1>4
<1> HIDE DEF first, last
<1> DEFINE front == Join(first, digits)
           code == Join(front, last)
<1>6. front \in Seq(Inked)
  BY <1>5, JoinType
<1>7. code \in Seq(Inked)
  BY <1>5, <1>6, JoinType
<1>8. /\ Len(front) = Len(first) + Len(digits)
      /\ \A i \in 1..Len(first) : front[i] = first[i]
      /\ \A i \in (Len(first) + 1)..(Len(first) + Len(digits)) : front[i] = digits[i - Len(first)]
  BY <1>5, JoinAt
<1>9. /\ Len(code) = Len(front) + Len(last)
      /\ \A i \in 1..Len(front) : code[i] = front[i]
      /\ \A i \in (Len(front) + 1)..(Len(front) + Len(last)) : code[i] = last[i - Len(front)]
  <2> HIDE DEF front
  <2> QED BY <1>5, <1>6, JoinAt
<1> HIDE DEF front, code
<1>10. Len(front) = 10 /\ Len(code) = 11
  BY <1>1, <1>5, <1>8, <1>9
<1>11. code[1] = LetterT
  BY <1>5, <1>8, <1>9, <1>10
<1>12. ASSUME NEW i \in 2..11 PROVE code[i] \in Digits
  <2>1. CASE i = 11
    BY <2>1, <1>5, <1>9, <1>10
  <2>2. CASE i # 11
    <3>1. code[i] = front[i] /\ front[i] = digits[i - 1] /\ i - 1 \in 1..9
      BY <2>2, <1>1, <1>5, <1>8, <1>9, <1>10
    <3>2. \A j \in 1..9 : digits[j] \in Digits
      BY <1>1, DigitAt
    <3> QED BY <3>1, <3>2
  <2> QED BY <2>1, <2>2
<1>13. Bytes(code) = 11
  BY <1>7, <1>10, PlainBytes
<1>14. ValidateIswc(code) = Ok
  BY <1>11, <1>12, <1>13 DEF ValidateIswc, AllIn
<1> QED BY <1>2, <1>14 DEF code, front

LEMMA GeneratedIsrc ==
  ASSUME NEW n \in Nat
  PROVE  ValidateIsrc(IsrcForIndex(n)) = Ok
<1> DEFINE first == << 30, 28, 27, 12, (n \div 100000) % 10 >>
           m == (n \div 1000000) % 100
           year == Decimals(m, 2)
           rest == n % 100000
           last == Decimals(rest, 5)
           front == Join(first, year)
           code == Join(front, last)
<1>1. year \in Seq(Digits) /\ Len(year) = 2 /\ last \in Seq(Digits) /\ Len(last) = 5
  <2>1. m \in Nat /\ rest \in Nat
    BY SMT
  <2> HIDE DEF m, rest
  <2> QED BY <2>1, DecimalsType
<1>2. IsrcForIndex(n) = code
  BY SMT DEF IsrcForIndex, Join
<1>3. /\ first \in Seq(Inked) /\ Len(first) = 5
      /\ \A i \in 1..2 : first[i] \in Upper
      /\ \A i \in 3..5 : first[i] \in Upper \cup Digits
  <2> DEFINE digit == (n \div 100000) % 10
  <2>1. digit \in Digits
    BY SMT DEF Digits
  <2> HIDE DEF digit
  <2>2. first = << 30, 28, 27, 12, digit >>
    BY DEF digit
  <2>3. 30 \in Upper /\ 28 \in Upper /\ 27 \in Upper /\ 12 \in Upper
    BY DEF Upper
  <2> HIDE DEF first
  <2> QED BY <2>1, <2>2, <2>3 DEF Inked
<1>4. year \in Seq(Inked) /\ last \in Seq(Inked)
  BY <1>1, DigitsInked
<1> HIDE DEF first, m, rest, year, last
<1>5. front \in Seq(Inked)
  BY <1>3, <1>4, JoinType
<1>6. code \in Seq(Inked)
  <2> HIDE DEF front
  <2> QED BY <1>4, <1>5, JoinType
<1>7. /\ Len(front) = Len(first) + Len(year)
      /\ \A i \in 1..Len(first) : front[i] = first[i]
      /\ \A i \in (Len(first) + 1)..(Len(first) + Len(year)) : front[i] = year[i - Len(first)]
  BY <1>3, <1>4, JoinAt
<1>8. /\ Len(code) = Len(front) + Len(last)
      /\ \A i \in 1..Len(front) : code[i] = front[i]
      /\ \A i \in (Len(front) + 1)..(Len(front) + Len(last)) : code[i] = last[i - Len(front)]
  <2> HIDE DEF front
  <2> QED BY <1>4, <1>5, JoinAt
<1> HIDE DEF front, code
<1>9. Len(front) = 7 /\ Len(code) = 12
  BY <1>1, <1>3, <1>7, <1>8
<1>10. /\ \A i \in 1..5 : code[i] = first[i]
       /\ \A i \in 6..7 : code[i] = year[i - 5]
       /\ \A i \in 8..12 : code[i] = last[i - 7]
  BY <1>1, <1>3, <1>7, <1>8, <1>9
<1>11. ASSUME NEW i \in 6..12 PROVE code[i] \in Digits
  <2>1. CASE i \in 6..7
    <3>1. i - 5 \in 1..2
      BY <2>1
    <3>2. \A j \in 1..2 : year[j] \in Digits
      BY <1>1, DigitAt
    <3> QED BY <3>1, <3>2, <2>1, <1>10
  <2>2. CASE i \in 8..12
    <3>1. i - 7 \in 1..5
      BY <2>2
    <3>2. \A j \in 1..5 : last[j] \in Digits
      BY <1>1, DigitAt
    <3> QED BY <3>1, <3>2, <2>2, <1>10
  <2> QED BY <2>1, <2>2
<1>12. (\A i \in 1..2 : code[i] \in Upper) /\ \A i \in 3..5 : code[i] \in Upper \cup Digits
  BY <1>3, <1>10
<1>13. Bytes(code) = 12
  BY <1>6, <1>9, PlainBytes
<1>14. ValidateIsrc(code) = Ok
  BY <1>11, <1>12, <1>13 DEF ValidateIsrc, AllIn
<1> QED BY <1>2, <1>14

-----------------------------------------------------------------------------
(* What the widgets of the form let through.                               *)

LEMMA IdentifierValid ==
  ASSUME TypedInAscii, NEW k \in IdKinds, NEW c \in Identifier(k)
  PROVE  Validate(k, c) = Ok
<1>1. PICK p \in Range(Parsed[k]) : p # None /\ c = p[1]
  BY DEF Identifier
<1>2. PICK raw \in DOMAIN Parsed[k] : p = Parsed[k][raw]
  BY <1>1 DEF Range
<1>3. DOMAIN Parsed[k] = RawCodes[k]
  BY InputsAssumption DEF ParsedCodes
<1>4. ~FaultyCode(k, raw)
  BY <1>1, <1>2 DEF FaultyCode
<1> QED BY <1>1, <1>2, <1>3, <1>4, CodeStored

\* The same for each kind by its own rule.
LEMMA IdentifiersValid ==
  ASSUME TypedInAscii
  PROVE  /\ \A c \in Identifier("iswc") : ValidateIswc(c) = Ok
         /\ \A c \in Identifier("isrc") : ValidateIsrc(c) = Ok
         /\ \A c \in Identifier("upc") : ValidateUpc(c) = Ok
         /\ \A c \in Identifier("ipi") : ValidateIpi(c) = Ok
         /\ \A c \in Identifier("isni") : ValidateIsni(c) = Ok
<1>1. \A k \in {"iswc", "isrc", "upc", "ipi", "isni"} : k \in IdKinds
  BY DEF IdKinds
<1>2. \A k \in {"iswc", "isrc", "upc", "ipi", "isni"} : \A c \in Identifier(k) : Validate(k, c) = Ok
  BY <1>1, IdentifierValid
<1> QED BY <1>2 DEF Validate

LEMMA CollectFacts ==
  ASSUME NEW S, NEW min, NEW l \in Collect(S, min)
  PROVE  AnySeq(l) /\ l \in Seq(S) /\ Len(l) >= min /\ \A i \in DOMAIN l : l[i] \in S
<1>1. PICK n \in 0..ListMax : l \in [1..n -> S]
  BY DEF Collect, SeqOf
<1>2. Len(l) >= min
  BY DEF Collect
<1>3. n \in Nat
  BY TypesAssumption
<1>4. l \in Seq(S)
  BY <1>1, <1>3
<1>5. AnySeq(l)
  BY <1>4, SeqIsAny
<1> QED BY <1>1, <1>2, <1>4, <1>5

\* A list with an entry is not the empty one.
LEMMA CollectSome ==
  ASSUME NEW S, NEW l \in Collect(S, 1)
  PROVE  l # <<>>
<1>1. l \in Seq(S) /\ Len(l) >= 1
  BY CollectFacts
<1> QED BY <1>1

LEMMA BoundedStringGood ==
  ASSUME NEW t \in BoundedString
  PROVE  NonEmpty(t) = Ok
<1>1. PICK u \in RawTexts : t = u.size /\ u.trimmed > 0
  BY DEF BoundedString
<1>2. u.size \in Nat /\ u.trimmed \in 0..u.size
  BY InputsAssumption
<1>3. t # 0
  BY <1>1, <1>2
<1> QED BY <1>3 DEF NonEmpty

LEMMA PartyIdGood ==
  ASSUME TypedInAscii, NEW p \in PartyId
  PROVE  ValidateParty(p) = Ok
<1>1. CASE \E c \in Identifier("ipi") : p = Party(Some(c), None)
  <2>1. PICK c \in Identifier("ipi") : p = Party(Some(c), None)
    BY <1>1
  <2>2. ValidateIpi(c) = Ok
    BY IdentifiersValid
  <2> QED BY <2>1, <2>2, SomeIsOne, NoneMaybe, PartyRules
<1>2. CASE \E c \in Identifier("isni") : p = Party(None, Some(c))
  <2>1. PICK c \in Identifier("isni") : p = Party(None, Some(c))
    BY <1>2
  <2>2. ValidateIsni(c) = Ok
    BY IdentifiersValid
  <2> QED BY <2>1, <2>2, SomeIsOne, NoneMaybe, PartyRules
<1>3. CASE \E c \in Identifier("ipi") : \E d \in Identifier("isni") : p = Party(Some(c), Some(d))
  <2>1. PICK c \in Identifier("ipi") : \E d \in Identifier("isni") : p = Party(Some(c), Some(d))
    BY <1>3
  <2>2. PICK d \in Identifier("isni") : p = Party(Some(c), Some(d))
    BY <2>1
  <2>3. ValidateIpi(c) = Ok /\ ValidateIsni(d) = Ok
    BY IdentifiersValid
  <2> QED BY <2>2, <2>3, SomeIsOne, PartyRules
<1> QED BY <1>1, <1>2, <1>3 DEF PartyId

LEMMA PerformerIdGood ==
  ASSUME TypedInAscii, NEW p \in PerformerId
  PROVE  Validate(p.kind, p.code) = Ok
<1>1. PICK k \in PerformerKinds : \E c \in Identifier(k) : p = [kind |-> k, code |-> c]
  BY DEF PerformerId
<1>2. PICK c \in Identifier(k) : p = [kind |-> k, code |-> c]
  BY <1>1
<1>3. Validate(k, c) = Ok
  BY IdentifierValid DEF PerformerKinds, IdKinds
<1>4. p.kind = k /\ p.code = c
  BY <1>2
<1> QED BY <1>3, <1>4

LEMMA RefToGood ==
  ASSUME TypedInAscii, NEW k \in {"iswc", "isrc"}, NEW r \in RefTo(k)
  PROVE  /\ k = "iswc" => ValidateWorkRef(r) = Ok
         /\ k = "isrc" => ValidateRecordingRef(r) = Ok
<1>1. r.code = None \/ \E c \in Identifier(k) : r.code = Some(c)
  BY DEF RefTo, ByMidds, ByCode
<1>2. MaybeOne(r.code) /\ (r.code = None \/ Validate(k, r.code[1]) = Ok)
  <2>1. CASE r.code = None
    BY <2>1, NoneMaybe
  <2>2. CASE \E c \in Identifier(k) : r.code = Some(c)
    <3>1. PICK c \in Identifier(k) : r.code = Some(c)
      BY <2>2
    <3>2. Validate(k, c) = Ok
      BY IdentifierValid DEF IdKinds
    <3> QED BY <3>1, <3>2, SomeIsOne
  <2> QED BY <1>1, <2>1, <2>2
<1>3. /\ OfOption(ValidateIswc, r.code) = IF r.code = None THEN Ok ELSE ValidateIswc(r.code[1])
      /\ OfOption(ValidateIsrc, r.code) = IF r.code = None THEN Ok ELSE ValidateIsrc(r.code[1])
  BY <1>2, OfOptionOk
<1>4. /\ k = "iswc" => (r.code = None \/ ValidateIswc(r.code[1]) = Ok)
      /\ k = "isrc" => (r.code = None \/ ValidateIsrc(r.code[1]) = Ok)
  BY <1>2 DEF Validate
<1>5. k = "iswc" => ValidateWorkRef(r) = Ok
  BY <1>3, <1>4 DEF ValidateWorkRef
<1>6. k = "isrc" => ValidateRecordingRef(r) = Ok
  BY <1>3, <1>4 DEF ValidateRecordingRef
<1> QED BY <1>5, <1>6

LEMMA OptionalTextGood ==
  ASSUME NEW o \in Optional(BoundedString)
  PROVE  OfOption(NonEmpty, o) = Ok
<1>1. CASE o = None
  BY <1>1, NoneMaybe, OfOptionOk
<1>2. CASE o # None
  <2>1. PICK t \in BoundedString : o = Some(t)
    BY <1>2 DEF Optional, Options
  <2>2. NonEmpty(t) = Ok
    BY BoundedStringGood
  <2> QED BY <2>1, <2>2, SomeIsOne, OfOptionOk
<1> QED BY <1>1, <1>2

LEMMA OffchainGood ==
  ASSUME NEW o \in OffchainExtension
  PROVE  ValidateOffchain(o) = Ok
<1>1. o = None \/ (o = Some(o[1]) /\ o[1] \in 1..TextMax)
  <2>1. CASE o # None
    <3>1. PICK t \in 1..TextMax : o = Some(t)
      BY <2>1 DEF OffchainExtension, Optional, Options
    <3> QED BY <3>1, SomeIsOne
  <2> QED BY <2>1
<1> QED BY <1>1, OffchainStored

LEMMA PlacesGood ==
  ASSUME NEW o \in AskPlaces
  PROVE  OfOption(ValidatePlaces, o) = Ok
<1>1. CASE o = None
  BY <1>1, NoneMaybe, OfOptionOk
<1>2. CASE o # None
  <2>1. PICK p \in [recording : Optional(BoundedString), mixing : {None},
                    mastering : Optional(BoundedString)] : o = Some(p)
    BY <1>2 DEF AskPlaces, Optional, Options
  <2>2. OfOption(NonEmpty, p.recording) = Ok /\ OfOption(NonEmpty, p.mastering) = Ok
    BY OptionalTextGood
  <2>3. OfOption(NonEmpty, p.mixing) = Ok
    <3>1. p.mixing = None
      OBVIOUS
    <3> QED BY <3>1, NoneMaybe, OfOptionOk
  <2>4. ValidatePlaces(p) = Ok
    BY <2>2, <2>3, ThreeRules DEF ValidatePlaces
  <2> QED BY <2>1, <2>4, SomeIsOne, OfOptionOk
<1> QED BY <1>1, <1>2

LEMMA ClassicalGood ==
  ASSUME NEW o \in BuildClassicalInfo
  PROVE  OfOption(ValidateClassical, o) = Ok
<1> DEFINE judged == [i \in DOMAIN o |-> ValidateClassical(o[i])]
<1>1. OfOption(ValidateClassical, o) = FirstError(judged)
  BY DEF OfOption, Each
<1>2. CASE o = None
  <2>1. FirstError(judged) = Ok
    BY <1>2, NoneMaybe, OptionResult
  <2> QED BY <1>1, <2>1
<1>3. CASE o # None
  <2>1. PICK c \in [opus : Optional(BoundedString), catalog_number : {None},
                    number_of_voices : Optional(IntInRange({0, 1}, Nat \ {0}))] : o = Some(c)
    BY <1>3 DEF BuildClassicalInfo, Optional, Options
  <2>2. OfOption(NonEmpty, c.opus) = Ok
    BY OptionalTextGood
  <2>3. OfOption(NonEmpty, c.catalog_number) = Ok
    <3>1. c.catalog_number = None
      OBVIOUS
    <3> QED BY <3>1, NoneMaybe, OfOptionOk
  <2>4. OfOption(LAMBDA n : Unless(n = 0, OutOfBounds), c.number_of_voices) = Ok
    <3> DEFINE v == c.number_of_voices
               r == [i \in DOMAIN v |-> Unless(v[i] = 0, OutOfBounds)]
    <3>1. v \in Options({0, 1} \cap (Nat \ {0}))
      BY DEF Optional, IntInRange
    <3>2. OfOption(LAMBDA n : Unless(n = 0, OutOfBounds), v) = FirstError(r)
      BY DEF OfOption, Each
    <3> HIDE DEF v
    <3>3. MaybeOne(v) /\ (v # None => v[1] # 0 /\ 1 \in DOMAIN v)
      <4>1. CASE v # None
        <5>1. PICK n \in {0, 1} \cap (Nat \ {0}) : v = Some(n)
          BY <3>1, <4>1 DEF Options
        <5> QED BY <5>1, SomeIsOne DEF Some
      <4> QED BY <4>1, NoneMaybe
    <3>4. FirstError(r) = IF v = None THEN Ok ELSE r[1]
      BY <3>3, OptionResult
    <3>5. v # None => r[1] = Ok
      BY <3>3 DEF Unless
    <3> QED BY <3>2, <3>4, <3>5 DEF v
  <2>5. ValidateClassical(c) = Ok
    BY <2>2, <2>3, <2>4, ThreeRules DEF ValidateClassical
  <2>6. o[1] = c /\ MaybeOne(o) /\ 1 \in DOMAIN o
    BY <2>1, SomeIsOne DEF Some
  <2>7. judged[1] = Ok
    BY <2>5, <2>6
  <2>8. FirstError(judged) = IF o = None THEN Ok ELSE judged[1]
    BY <2>6, OptionResult
  <2> QED BY <1>1, <1>3, <2>7, <2>8
<1> QED BY <1>2, <1>3

-----------------------------------------------------------------------------
(* What the form makes sure of, field by field.                            *)

\* Source works are well formed, and as many as the form of the work takes.
WorkTypePasses(w) ==
  /\ AnySeq(w.sources) /\ \A i \in DOMAIN w.sources : ValidateIswc(w.sources[i]) = Ok
  /\ w.form \in Collages => Len(w.sources) >= 2
  /\ w.form \notin Collages => IsInjective(w.sources)

ListPasses(k, f, l) ==
  /\ AnySeq(l) /\ \A i \in DOMAIN l : ValueStored(k, f, l[i])
  /\ f \in {"creators", "tracks"} => l # <<>>
  /\ f = "tracks" => \A i \in DOMAIN l : l[i].number # 0

\* All that validate_format asks of a field for itself.
FieldPasses(k, f, v) ==
  CASE f \in Flags \cup {"genre", "sub_genre"} -> TRUE
    [] f \in {"creation_year", "record_year"} -> v \in Options(YearRange)
    [] f = "bpm" -> v \in Options(BpmRange)
    [] f = "work_type" -> WorkTypePasses(v)
    [] f = "classical_info" -> OfOption(ValidateClassical, v) = Ok
    [] f = "release_date" -> ValidateDate(v) = Ok
    [] f \in Lists -> ListPasses(k, f, v)
    [] OTHER -> ValueStored(k, f, v)

LEMMA OriginalPasses == WorkTypePasses(Original)
<1> DEFINE l == Original.sources
<1>1. Original.form = "Original" /\ l = <<>>
  BY DEF Original, WorkType
<1>2. <<>> \in Seq({}) /\ DOMAIN <<>> = {}
  OBVIOUS
<1> HIDE DEF l
<1>3. AnySeq(l) /\ DOMAIN l = {}
  BY <1>1, <1>2, SeqIsAny
<1>4. IsInjective(l)
  BY <1>3 DEF IsInjective
<1> QED BY <1>1, <1>3, <1>4 DEF WorkTypePasses, Collages, l

LEMMA WorkTypesPass ==
  ASSUME TypedInAscii, NEW w \in BuildWorkType
  PROVE  WorkTypePasses(w)
<1>0. \A c \in Identifier("iswc") : ValidateIswc(c) = Ok
  BY IdentifiersValid
<1>1. CASE w = Original
  BY <1>1, OriginalPasses
<1>2. CASE \E form \in Collages : \E s \in Collect(Identifier("iswc"), 2) : w = WorkType(form, s)
  <2>1. PICK form \in Collages : \E s \in Collect(Identifier("iswc"), 2) : w = WorkType(form, s)
    BY <1>2
  <2>2. PICK s \in Collect(Identifier("iswc"), 2) : w = WorkType(form, s)
    BY <2>1
  <2>3. w.sources = s /\ w.form \in Collages
    BY <2>2 DEF WorkType
  <2>4. AnySeq(s) /\ Len(s) >= 2 /\ \A i \in DOMAIN s : s[i] \in Identifier("iswc")
    BY CollectFacts
  <2> QED BY <1>0, <2>3, <2>4 DEF WorkTypePasses
<1>3. CASE \E form \in Derivatives : \E c \in Identifier("iswc") : w = WorkType(form, <<c>>)
  <2>1. PICK form \in Derivatives : \E c \in Identifier("iswc") : w = WorkType(form, <<c>>)
    BY <1>3
  <2>2. PICK c \in Identifier("iswc") : w = WorkType(form, <<c>>)
    BY <2>1
  <2> DEFINE s == <<c>>
  <2>3. w.sources = s /\ w.form \notin Collages
    BY <2>2 DEF WorkType, Derivatives, Collages
  <2>4. s \in Seq({c}) /\ DOMAIN s = {1} /\ s[1] = c
    OBVIOUS
  <2> HIDE DEF s
  <2>5. AnySeq(s) /\ IsInjective(s)
    BY <2>4, SeqIsAny DEF IsInjective
  <2> QED BY <1>0, <2>3, <2>4, <2>5 DEF WorkTypePasses
<1> QED BY <1>1, <1>2, <1>3 DEF BuildWorkType

\* A collected list passes if its entries do.
LEMMA CollectPasses ==
  ASSUME NEW k, NEW f, f \notin {"creators", "tracks"}, NEW S, NEW l \in Collect(S, 0),
         \A v \in S : ValueStored(k, f, v)
  PROVE  ListPasses(k, f, l)
<1>1. AnySeq(l) /\ \A i \in DOMAIN l : l[i] \in S
  BY CollectFacts
<1> QED BY <1>1 DEF ListPasses

LEMMA PerformersPass ==
  ASSUME TypedInAscii, NEW k, NEW l \in BuildPerformers
  PROVE  ListPasses(k, "performers", l)
<1> DEFINE S == {[kind |-> p.kind, code |-> p.code, instruments |-> list] :
                  p \in PerformerId, list \in Collect(Instruments, 0)}
<1>1. ASSUME NEW v \in S PROVE ValueStored(k, "performers", v)
  <2>1. PICK p \in PerformerId : \E list \in Collect(Instruments, 0) :
               v = [kind |-> p.kind, code |-> p.code, instruments |-> list]
    OBVIOUS
  <2>2. Validate(p.kind, p.code) = Ok
    BY PerformerIdGood
  <2>3. v.kind = p.kind /\ v.code = p.code
    BY <2>1
  <2> QED BY <2>2, <2>3 DEF ValueStored, IdKinds, ValidatePerformerId
<1>2. l \in Collect(S, 0)
  BY DEF BuildPerformers
<1> HIDE DEF S
<1> QED BY <1>1, <1>2, CollectPasses

LEMMA CreatorsPass ==
  ASSUME TypedInAscii, NEW k, NEW l \in BuildCreators
  PROVE  ListPasses(k, "creators", l)
<1> DEFINE S == [roles : MultiSelect({"Author", "Composer"}), party : PartyId]
<1>1. ASSUME NEW v \in S PROVE ValueStored(k, "creators", v)
  <2>1. v.roles # {} /\ v.party \in PartyId
    BY DEF MultiSelect
  <2>2. ValidateParty(v.party) = Ok
    BY <2>1, PartyIdGood
  <2>3. Unless(v.roles = {}, EmptyMandatoryField) = Ok
    BY <2>1 DEF Unless
  <2>4. ValidateCreator(v) = Ok
    BY <2>2, <2>3, TwoRules DEF ValidateCreator
  <2> QED BY <2>4 DEF ValueStored, IdKinds
<1>2. l \in Collect(S, 1)
  BY DEF BuildCreators
<1> HIDE DEF S
<1>3. AnySeq(l) /\ \A i \in DOMAIN l : l[i] \in S
  BY <1>2, CollectFacts
<1>4. l # <<>>
  BY <1>2, CollectSome
<1> QED BY <1>1, <1>3, <1>4 DEF ListPasses

LEMMA TracksPass ==
  ASSUME TypedInAscii, NEW k, NEW l \in AskTracks
  PROVE  ListPasses(k, "tracks", l)
<1> DEFINE S == [number : IntInRange(TrackNumbers, 1..ListMax), recording : RefTo("isrc")]
<1>1. ASSUME NEW v \in S PROVE ValueStored(k, "tracks", v) /\ v.number # 0
  <2>1. v.number \in 1..ListMax /\ v.recording \in RefTo("isrc")
    BY DEF IntInRange
  <2>2. ValidateRecordingRef(v.recording) = Ok
    BY <2>1, RefToGood
  <2>3. v.number # 0
    BY <2>1, TypesAssumption
  <2> QED BY <2>2, <2>3 DEF ValueStored, IdKinds
<1>2. l \in Collect(S, 1)
  BY DEF AskTracks
<1> HIDE DEF S
<1>3. AnySeq(l) /\ \A i \in DOMAIN l : l[i] \in S
  BY <1>2, CollectFacts
<1>4. l # <<>>
  BY <1>2, CollectSome
<1> QED BY <1>1, <1>3, <1>4 DEF ListPasses

LEMMA ProducersPass ==
  ASSUME TypedInAscii, NEW l \in AskProducers
  PROVE  ListPasses("Release", "producers", l)
<1> DEFINE S == [isni : Identifier("isni"), catalog_number : BoundedString]
<1>1. ASSUME NEW v \in S PROVE ValueStored("Release", "producers", v)
  <2>1. v.isni \in Identifier("isni") /\ v.catalog_number \in BoundedString
    OBVIOUS
  <2>2. ValidateIsni(v.isni) = Ok /\ NonEmpty(v.catalog_number) = Ok
    BY <2>1, IdentifiersValid, BoundedStringGood
  <2>3. ValidateProducer(v) = Ok
    BY <2>2, TwoRules DEF ValidateProducer
  <2> QED BY <2>3 DEF ValueStored, IdKinds
<1>2. l \in Collect(S, 0)
  BY DEF AskProducers
<1> HIDE DEF S
<1> QED BY <1>1, <1>2, CollectPasses

\* Lists of texts, of parties, of codes and of references.
LEMMA SimpleListsPass ==
  ASSUME TypedInAscii, NEW k
  PROVE  /\ \A f \in {"title_aliases", "cover_contributors"} :
              \A l \in Collect(BoundedString, 0) : ListPasses(k, f, l)
         /\ \A f \in {"featuring", "contributors"} :
              \A l \in Collect(PartyId, 0) : ListPasses(k, f, l)
         /\ \A l \in Collect(Identifier("isni"), 0) : ListPasses("Recording", "producers", l)
         /\ \A l \in Collect(RefTo("iswc"), 0) : ListPasses(k, "samples", l)
<1>1. ASSUME NEW f \in {"title_aliases", "cover_contributors"},
             NEW l \in Collect(BoundedString, 0)
      PROVE  ListPasses(k, f, l)
  <2>1. \A v \in BoundedString : ValueStored(k, f, v)
    BY BoundedStringGood DEF ValueStored, IdKinds
  <2>2. f \notin {"creators", "tracks"}
    OBVIOUS
  <2> QED BY <2>1, <2>2, CollectPasses
<1>2. ASSUME NEW f \in {"featuring", "contributors"}, NEW l \in Collect(PartyId, 0)
      PROVE  ListPasses(k, f, l)
  <2>1. \A v \in PartyId : ValueStored(k, f, v)
    BY PartyIdGood DEF ValueStored, IdKinds
  <2>2. f \notin {"creators", "tracks"}
    OBVIOUS
  <2> QED BY <2>1, <2>2, CollectPasses
<1>3. ASSUME NEW l \in Collect(Identifier("isni"), 0)
      PROVE  ListPasses("Recording", "producers", l)
  <2>1. \A v \in Identifier("isni") : ValueStored("Recording", "producers", v)
    BY IdentifiersValid DEF ValueStored, IdKinds
  <2> QED BY <2>1, CollectPasses
<1>4. ASSUME NEW l \in Collect(RefTo("iswc"), 0) PROVE ListPasses(k, "samples", l)
  <2>1. \A v \in RefTo("iswc") : ValueStored(k, "samples", v)
    BY RefToGood DEF ValueStored, IdKinds
  <2> QED BY <2>1, CollectPasses
<1> QED BY <1>1, <1>2, <1>3, <1>4

LEMMA NumbersPass ==
  /\ \A v \in Optional(IntInRange(Years, YearRange)) : v \in Options(YearRange)
  /\ \A v \in Optional(IntInRange(Bpms, BpmRange)) : v \in Options(BpmRange)
  BY DEF Optional, Options, IntInRange

LEMMA DatesPass ==
  ASSUME NEW d \in ReleaseDate
  PROVE  ValidateDate(d) = Ok
<1>1. d.month \in 1..12 /\ d.day \in 1..31
  BY DEF ReleaseDate
<1> QED BY <1>1 DEF ValidateDate, Unless

LEMMA WorkAnswersPass ==
  ASSUME TypedInAscii, NEW form,
         NEW f \in
          {"iswc", "title", "creation_year", "bpm", "work_type", "samples",
          "creators", "classical_info", "offchain_extension", "instrumental",
          "explicit_lyrics"},
         NEW v \in WorkAnswers(f, form)
  PROVE  FieldPasses("MusicalWork", f, v)
<1>1. CASE f = "iswc"
  <2>1. WorkAnswers(f, form) = Identifier("iswc")
    BY <1>1 DEF WorkAnswers
  <2> QED BY <2>1, <1>1, IdentifiersValid DEF FieldPasses, Flags, Lists, ValueStored, IdKinds, Validate
<1>2. CASE f = "title"
  <2>1. WorkAnswers(f, form) = BoundedString
    BY <1>2 DEF WorkAnswers
  <2> QED BY <2>1, <1>2, BoundedStringGood DEF FieldPasses, Flags, Lists, ValueStored, IdKinds
<1>3. CASE f = "creation_year"
  <2>1. WorkAnswers(f, form) = Optional(IntInRange(Years, YearRange))
    BY <1>3 DEF WorkAnswers
  <2> QED BY <2>1, <1>3, NumbersPass DEF FieldPasses, Flags, Lists
<1>4. CASE f = "bpm"
  <2>1. WorkAnswers(f, form) = Optional(IntInRange(Bpms, BpmRange))
    BY <1>4 DEF WorkAnswers
  <2> QED BY <2>1, <1>4, NumbersPass DEF FieldPasses, Flags, Lists
<1>5. CASE f = "work_type"
  <2>1. WorkAnswers(f, form) = BuildWorkType
    BY <1>5 DEF WorkAnswers
  <2> QED BY <2>1, <1>5, WorkTypesPass DEF FieldPasses, Flags, Lists
<1>6. CASE f = "samples"
  <2>1. WorkAnswers(f, form) = Collect(RefTo("iswc"), 0)
    BY <1>6 DEF WorkAnswers
  <2> QED BY <2>1, <1>6, SimpleListsPass DEF FieldPasses, Flags, Lists
<1>7. CASE f = "creators"
  <2>1. WorkAnswers(f, form) = BuildCreators
    BY <1>7 DEF WorkAnswers
  <2> QED BY <2>1, <1>7, CreatorsPass DEF FieldPasses, Flags, Lists
<1>8. CASE f = "classical_info"
  <2>1. WorkAnswers(f, form) = BuildClassicalInfo
    BY <1>8 DEF WorkAnswers
  <2> QED BY <2>1, <1>8, ClassicalGood DEF FieldPasses, Flags, Lists
<1>9. CASE f = "offchain_extension"
  <2>1. WorkAnswers(f, form) = OffchainExtension
    BY <1>9 DEF WorkAnswers
  <2> QED BY <2>1, <1>9, OffchainGood DEF FieldPasses, Flags, Lists, ValueStored, IdKinds
<1>10. CASE f = "instrumental" \/ f = "explicit_lyrics"
  BY <1>10 DEF FieldPasses, Flags, Lists
<1> QED BY <1>1, <1>2, <1>3, <1>4, <1>5, <1>6, <1>7, <1>8, <1>9, <1>10

LEMMA RecordingAnswersPass ==
  ASSUME TypedInAscii, NEW form,
         NEW f \in
          {"isrc", "title", "title_aliases", "artist", "featuring", "work",
          "record_year", "performers", "producers", "bpm", "places",
          "contributors", "offchain_extension", "genre", "sub_genre"},
         NEW v \in RecordingAnswers(f, form)
  PROVE  FieldPasses("Recording", f, v)
<1>1. CASE f = "isrc"
  <2>1. RecordingAnswers(f, form) = Identifier("isrc")
    BY <1>1 DEF RecordingAnswers
  <2> QED BY <2>1, <1>1, IdentifiersValid DEF FieldPasses, Flags, Lists, ValueStored, IdKinds, Validate
<1>2. CASE f = "title"
  <2>1. RecordingAnswers(f, form) = BoundedString
    BY <1>2 DEF RecordingAnswers
  <2> QED BY <2>1, <1>2, BoundedStringGood DEF FieldPasses, Flags, Lists, ValueStored, IdKinds
<1>3. CASE f = "title_aliases"
  <2>1. RecordingAnswers(f, form) = Collect(BoundedString, 0)
    BY <1>3 DEF RecordingAnswers
  <2> QED BY <2>1, <1>3, SimpleListsPass DEF FieldPasses, Flags, Lists
<1>4. CASE f = "artist"
  <2>1. RecordingAnswers(f, form) = PartyId
    BY <1>4 DEF RecordingAnswers
  <2> QED BY <2>1, <1>4, PartyIdGood DEF FieldPasses, Flags, Lists, ValueStored, IdKinds
<1>5. CASE f = "featuring"
  <2>1. RecordingAnswers(f, form) = Collect(PartyId, 0)
    BY <1>5 DEF RecordingAnswers
  <2> QED BY <2>1, <1>5, SimpleListsPass DEF FieldPasses, Flags, Lists
<1>6. CASE f = "work"
  <2>1. RecordingAnswers(f, form) = RefTo("iswc")
    BY <1>6 DEF RecordingAnswers
  <2> QED BY <2>1, <1>6, RefToGood DEF FieldPasses, Flags, Lists, ValueStored, IdKinds
<1>7. CASE f = "record_year"
  <2>1. RecordingAnswers(f, form) = Optional(IntInRange(Years, YearRange))
    BY <1>7 DEF RecordingAnswers
  <2> QED BY <2>1, <1>7, NumbersPass DEF FieldPasses, Flags, Lists
<1>8. CASE f = "performers"
  <2>1. RecordingAnswers(f, form) = BuildPerformers
    BY <1>8 DEF RecordingAnswers
  <2> QED BY <2>1, <1>8, PerformersPass DEF FieldPasses, Flags, Lists
<1>9. CASE f = "producers"
  <2>1. RecordingAnswers(f, form) = Collect(Identifier("isni"), 0)
    BY <1>9 DEF RecordingAnswers
  <2> QED BY <2>1, <1>9, SimpleListsPass DEF FieldPasses, Flags, Lists
<1>10. CASE f = "bpm"
  <2>1. RecordingAnswers(f, form) = Optional(IntInRange(Bpms, BpmRange))
    BY <1>10 DEF RecordingAnswers
  <2> QED BY <2>1, <1>10, NumbersPass DEF FieldPasses, Flags, Lists
<1>11. CASE f = "places"
  <2>1. RecordingAnswers(f, form) = AskPlaces
    BY <1>11 DEF RecordingAnswers
  <2> QED BY <2>1, <1>11, PlacesGood DEF FieldPasses, Flags, Lists, ValueStored, IdKinds
<1>12. CASE f = "contributors"
  <2>1. RecordingAnswers(f, form) = Collect(PartyId, 0)
    BY <1>12 DEF RecordingAnswers
  <2> QED BY <2>1, <1>12, SimpleListsPass DEF FieldPasses, Flags, Lists
<1>13. CASE f = "offchain_extension"
  <2>1. RecordingAnswers(f, form) = OffchainExtension
    BY <1>13 DEF RecordingAnswers
  <2> QED BY <2>1, <1>13, OffchainGood DEF FieldPasses, Flags, Lists, ValueStored, IdKinds
<1>14. CASE f = "genre" \/ f = "sub_genre"
  BY <1>14 DEF FieldPasses, Flags, Lists
<1> QED BY <1>1, <1>2, <1>3, <1>4, <1>5, <1>6, <1>7, <1>8, <1>9, <1>10, <1>11, <1>12, <1>13, <1>14

LEMMA ReleaseAnswersPass ==
  ASSUME TypedInAscii, NEW form,
         NEW f \in
          {"upc", "title", "title_aliases", "artist", "featuring", "tracks",
          "producers", "release_date", "distributor_name",
          "cover_contributors", "offchain_extension"},
         NEW v \in ReleaseAnswers(f, form)
  PROVE  FieldPasses("Release", f, v)
<1>1. CASE f = "upc"
  <2>1. ReleaseAnswers(f, form) = Identifier("upc")
    BY <1>1 DEF ReleaseAnswers
  <2> QED BY <2>1, <1>1, IdentifiersValid DEF FieldPasses, Flags, Lists, ValueStored, IdKinds, Validate
<1>2. CASE f = "title"
  <2>1. ReleaseAnswers(f, form) = BoundedString
    BY <1>2 DEF ReleaseAnswers
  <2> QED BY <2>1, <1>2, BoundedStringGood DEF FieldPasses, Flags, Lists, ValueStored, IdKinds
<1>3. CASE f = "title_aliases"
  <2>1. ReleaseAnswers(f, form) = Collect(BoundedString, 0)
    BY <1>3 DEF ReleaseAnswers
  <2> QED BY <2>1, <1>3, SimpleListsPass DEF FieldPasses, Flags, Lists
<1>4. CASE f = "artist"
  <2>1. ReleaseAnswers(f, form) = PartyId
    BY <1>4 DEF ReleaseAnswers
  <2> QED BY <2>1, <1>4, PartyIdGood DEF FieldPasses, Flags, Lists, ValueStored, IdKinds
<1>5. CASE f = "featuring"
  <2>1. ReleaseAnswers(f, form) = Collect(PartyId, 0)
    BY <1>5 DEF ReleaseAnswers
  <2> QED BY <2>1, <1>5, SimpleListsPass DEF FieldPasses, Flags, Lists
<1>6. CASE f = "tracks"
  <2>1. ReleaseAnswers(f, form) = AskTracks
    BY <1>6 DEF ReleaseAnswers
  <2> QED BY <2>1, <1>6, TracksPass DEF FieldPasses, Flags, Lists
<1>7. CASE f = "producers"
  <2>1. ReleaseAnswers(f, form) = AskProducers
    BY <1>7 DEF ReleaseAnswers
  <2> QED BY <2>1, <1>7, ProducersPass DEF FieldPasses, Flags, Lists
<1>8. CASE f = "release_date"
  <2>1. ReleaseAnswers(f, form) = ReleaseDate
    BY <1>8 DEF ReleaseAnswers
  <2> QED BY <2>1, <1>8, DatesPass DEF FieldPasses, Flags, Lists
<1>9. CASE f = "distributor_name"
  <2>1. ReleaseAnswers(f, form) = BoundedString
    BY <1>9 DEF ReleaseAnswers
  <2> QED BY <2>1, <1>9, BoundedStringGood DEF FieldPasses, Flags, Lists, ValueStored, IdKinds
<1>10. CASE f = "cover_contributors"
  <2>1. ReleaseAnswers(f, form) = Collect(BoundedString, 0)
    BY <1>10 DEF ReleaseAnswers
  <2> QED BY <2>1, <1>10, SimpleListsPass DEF FieldPasses, Flags, Lists
<1>11. CASE f = "offchain_extension"
  <2>1. ReleaseAnswers(f, form) = OffchainExtension
    BY <1>11 DEF ReleaseAnswers
  <2> QED BY <2>1, <1>11, OffchainGood DEF FieldPasses, Flags, Lists, ValueStored, IdKinds
<1> QED BY <1>1, <1>2, <1>3, <1>4, <1>5, <1>6, <1>7, <1>8, <1>9, <1>10, <1>11

\* The test builder's values, which the fields out of focus keep.
LEMMA NothingListed ==
  ASSUME NEW k, NEW f, f \notin {"creators", "tracks"}
  PROVE  ListPasses(k, f, <<>>)
<1>1. <<>> \in Seq({})
  OBVIOUS
<1>2. AnySeq(<<>>)
  BY <1>1, SeqIsAny
<1> QED BY <1>2 DEF ListPasses

LEMMA OneListed ==
  ASSUME NEW k, NEW f, NEW v, ValueStored(k, f, v), f = "tracks" => v.number # 0
  PROVE  ListPasses(k, f, <<v>>)
<1> DEFINE l == <<v>>
<1>1. l \in Seq({v}) /\ DOMAIN l = {1} /\ l[1] = v /\ l # <<>>
  OBVIOUS
<1> HIDE DEF l
<1>2. AnySeq(l)
  BY <1>1, SeqIsAny
<1>3. ListPasses(k, f, l)
  BY <1>1, <1>2 DEF ListPasses
<1> QED BY <1>3 DEF l

LEMMA DefaultPartyGood == ValidateParty(DefaultParty) = Ok
<1> DEFINE n == 123456789
           code == IpiFromStem(n, 9)
<1>1. n \in Nat
  BY SMT
<1>2. DefaultParty = Party(Some(code), None)
  BY DEF DefaultParty
<1> HIDE DEF n
<1>3. ValidateIpi(code) = Ok
  BY <1>1, GeneratedIpi
<1> HIDE DEF code
<1> QED BY <1>2, <1>3, SomeIsOne, NoneMaybe, PartyRules

LEMMA NothingGiven ==
  /\ ValidateOffchain(None) = Ok /\ OfOption(ValidatePlaces, None) = Ok
  /\ None \in Options(YearRange) /\ None \in Options(BpmRange)
  /\ OfOption(ValidateClassical, None) = Ok
<1>1. ValidateOffchain(None) = Ok /\ OfOption(ValidatePlaces, None) = Ok
  BY NoneMaybe, OfOptionOk DEF ValidateOffchain
<1>2. OfOption(ValidateClassical, None) = Ok
  <2> DEFINE r == [i \in DOMAIN None |-> ValidateClassical(None[i])]
  <2>1. OfOption(ValidateClassical, None) = FirstError(r)
    BY DEF OfOption, Each
  <2>2. FirstError(r) = Ok
    BY NoneMaybe, OptionResult
  <2> QED BY <2>1, <2>2
<1> QED BY <1>1, <1>2 DEF Options

LEMMA RefsGood ==
  /\ \A c : ValidateIswc(c) = Ok => ValidateWorkRef(ByCode(c)) = Ok
  /\ \A id : ValidateRecordingRef(ByMidds(id)) = Ok
<1>1. ASSUME NEW c, ValidateIswc(c) = Ok PROVE ValidateWorkRef(ByCode(c)) = Ok
  <2>1. ByCode(c).code = Some(c)
    BY DEF ByCode
  <2> QED BY <1>1, <2>1, SomeIsOne, OfOptionOk DEF ValidateWorkRef
<1>2. ASSUME NEW id PROVE ValidateRecordingRef(ByMidds(id)) = Ok
  <2>1. ByMidds(id).code = None
    BY DEF ByMidds
  <2> QED BY <2>1, NoneMaybe, OfOptionOk DEF ValidateRecordingRef
<1> QED BY <1>1, <1>2

LEMMA OneIsGood == NonEmpty(1) = Ok
  BY DEF NonEmpty

LEMMA WorkSamplePasses ==
  ASSUME NEW f \in DOMAIN DefaultWork
  PROVE  FieldPasses("MusicalWork", f, DefaultWork[f])
<1>1. CASE f = "iswc"
  <2>1. DefaultWork[f] = IswcFromWorkCode(0)
    BY <1>1 DEF DefaultWork
  <2>2. ValidateIswc(IswcFromWorkCode(0)) = Ok
    BY GeneratedIswc
  <2> QED BY <1>1, <2>1, <2>2 DEF FieldPasses, Flags, Lists, ValueStored, IdKinds, Validate
<1>2. CASE f = "title"
  BY <1>2, OneIsGood DEF DefaultWork, FieldPasses, Flags, Lists, ValueStored, IdKinds
<1>3. CASE f = "creation_year"
  <2>1. DefaultWork[f] = Some(2024) /\ 2024 \in YearRange
    BY <1>3 DEF DefaultWork, YearRange
  <2> QED BY <1>3, <2>1 DEF FieldPasses, Flags, Lists, Options
<1>4. CASE f = "bpm"
  BY <1>4, NothingGiven DEF DefaultWork, FieldPasses, Flags, Lists
<1>5. CASE f = "work_type"
  <2>1. DefaultWork[f] = Original
    BY <1>5 DEF DefaultWork
  <2> QED BY <1>5, <2>1, OriginalPasses DEF FieldPasses, Flags, Lists
<1>6. CASE f = "samples"
  BY <1>6, NothingListed DEF DefaultWork, FieldPasses, Flags, Lists
<1>7. CASE f = "creators"
  <2> DEFINE c == [roles |-> {"Composer"}, party |-> DefaultParty]
  <2>1. DefaultWork[f] = <<c>>
    BY <1>7 DEF DefaultWork
  <2>2. Unless(c.roles = {}, EmptyMandatoryField) = Ok /\ c.party = DefaultParty
    BY DEF Unless
  <2> HIDE DEF c
  <2>3. ValidateCreator(c) = Ok
    BY <2>2, DefaultPartyGood, TwoRules DEF ValidateCreator
  <2>4. ValueStored("MusicalWork", "creators", c)
    BY <2>3 DEF ValueStored, IdKinds
  <2>5. ListPasses("MusicalWork", "creators", <<c>>)
    BY <2>4, OneListed
  <2> QED BY <1>7, <2>1, <2>5 DEF FieldPasses, Flags, Lists
<1>8. CASE f = "classical_info"
  BY <1>8, NothingGiven DEF DefaultWork, FieldPasses, Flags, Lists
<1>9. CASE f = "offchain_extension"
  BY <1>9, NothingGiven DEF DefaultWork, FieldPasses, Flags, Lists, ValueStored, IdKinds
<1>10. CASE f \in Flags
  BY <1>10 DEF FieldPasses, Flags, Lists
<1>11. DOMAIN DefaultWork =
         {"iswc", "title", "creation_year", "instrumental", "explicit_lyrics", "bpm", "work_type",
          "samples", "creators", "classical_info", "offchain_extension"}
  BY DEF DefaultWork
<1> QED BY <1>1, <1>2, <1>3, <1>4, <1>5, <1>6, <1>7, <1>8, <1>9, <1>10, <1>11 DEF Flags

LEMMA RecordingSamplePasses ==
  ASSUME NEW f \in DOMAIN DefaultRecording
  PROVE  FieldPasses("Recording", f, DefaultRecording[f])
<1>1. CASE f = "isrc"
  <2>1. DefaultRecording[f] = IsrcForIndex(0)
    BY <1>1 DEF DefaultRecording
  <2>2. ValidateIsrc(IsrcForIndex(0)) = Ok
    BY GeneratedIsrc
  <2> QED BY <1>1, <2>1, <2>2 DEF FieldPasses, Flags, Lists, ValueStored, IdKinds, Validate
<1>2. CASE f = "title"
  BY <1>2, OneIsGood DEF DefaultRecording, FieldPasses, Flags, Lists, ValueStored, IdKinds
<1>3. CASE f \in {"title_aliases", "featuring", "performers", "producers", "contributors"}
  <2>1. DefaultRecording[f] = <<>>
    BY <1>3 DEF DefaultRecording
  <2>2. ListPasses("Recording", f, <<>>)
    BY <1>3, NothingListed
  <2> QED BY <1>3, <2>1, <2>2 DEF FieldPasses, Flags, Lists
<1>4. CASE f = "artist"
  BY <1>4, DefaultPartyGood DEF DefaultRecording, FieldPasses, Flags, Lists, ValueStored, IdKinds
<1>5. CASE f = "work"
  <2>1. DefaultRecording[f] = ByCode(IswcFromWorkCode(0))
    BY <1>5 DEF DefaultRecording
  <2>2. ValidateIswc(IswcFromWorkCode(0)) = Ok
    BY GeneratedIswc
  <2>3. ValidateWorkRef(ByCode(IswcFromWorkCode(0))) = Ok
    BY <2>2, RefsGood
  <2> QED BY <1>5, <2>1, <2>3 DEF FieldPasses, Flags, Lists, ValueStored, IdKinds
<1>6. CASE f = "record_year"
  BY <1>6, NothingGiven DEF DefaultRecording, FieldPasses, Flags, Lists
<1>7. CASE f = "bpm"
  BY <1>7, NothingGiven DEF DefaultRecording, FieldPasses, Flags, Lists
<1>8. CASE f = "places"
  BY <1>8, NothingGiven DEF DefaultRecording, FieldPasses, Flags, Lists, ValueStored, IdKinds
<1>9. CASE f = "offchain_extension"
  BY <1>9, NothingGiven DEF DefaultRecording, FieldPasses, Flags, Lists, ValueStored, IdKinds
<1>10. CASE f \in {"genre", "sub_genre"}
  BY <1>10 DEF FieldPasses, Flags, Lists
<1>11. DOMAIN DefaultRecording =
         {"isrc", "title", "title_aliases", "artist", "featuring", "work", "genre", "sub_genre",
          "record_year", "performers", "producers", "bpm", "places", "contributors",
          "offchain_extension"}
  BY DEF DefaultRecording
<1> QED BY <1>1, <1>2, <1>3, <1>4, <1>5, <1>6, <1>7, <1>8, <1>9, <1>10, <1>11

LEMMA ReleaseSamplePasses ==
  ASSUME NEW f \in DOMAIN DefaultRelease
  PROVE  FieldPasses("Release", f, DefaultRelease[f])
<1>1. CASE f = "upc"
  <2>1. DefaultRelease[f] = UpcForIndex(0)
    BY <1>1 DEF DefaultRelease
  <2>2. ValidateUpc(UpcForIndex(0)) = Ok
    BY GeneratedUpc
  <2> QED BY <1>1, <2>1, <2>2 DEF FieldPasses, Flags, Lists, ValueStored, IdKinds, Validate
<1>2. CASE f \in {"title", "distributor_name"}
  <2>1. DefaultRelease[f] = 1
    BY <1>2 DEF DefaultRelease
  <2> QED BY <1>2, <2>1, OneIsGood DEF FieldPasses, Flags, Lists, ValueStored, IdKinds
<1>3. CASE f \in {"title_aliases", "featuring", "producers", "cover_contributors"}
  <2>1. DefaultRelease[f] = <<>>
    BY <1>3 DEF DefaultRelease
  <2>2. ListPasses("Release", f, <<>>)
    BY <1>3, NothingListed
  <2> QED BY <1>3, <2>1, <2>2 DEF FieldPasses, Flags, Lists
<1>4. CASE f = "artist"
  BY <1>4, DefaultPartyGood DEF DefaultRelease, FieldPasses, Flags, Lists, ValueStored, IdKinds
<1>5. CASE f = "tracks"
  <2> DEFINE t == [number |-> 1, recording |-> ByMidds(0)]
  <2>1. DefaultRelease[f] = <<t>>
    BY <1>5 DEF DefaultRelease
  <2>2. t.number # 0 /\ ValidateRecordingRef(t.recording) = Ok
    BY RefsGood
  <2> HIDE DEF t
  <2>3. ValueStored("Release", "tracks", t)
    BY <2>2 DEF ValueStored, IdKinds
  <2>4. ListPasses("Release", "tracks", <<t>>)
    BY <2>2, <2>3, OneListed
  <2> QED BY <1>5, <2>1, <2>4 DEF FieldPasses, Flags, Lists
<1>6. CASE f = "release_date"
  <2>1. DefaultRelease[f] = [month |-> 1, day |-> 1]
    BY <1>6 DEF DefaultRelease
  <2>2. ValidateDate([month |-> 1, day |-> 1]) = Ok
    BY DEF ValidateDate, Unless
  <2> QED BY <1>6, <2>1, <2>2 DEF FieldPasses, Flags, Lists
<1>7. CASE f = "offchain_extension"
  BY <1>7, NothingGiven DEF DefaultRelease, FieldPasses, Flags, Lists, ValueStored, IdKinds
<1>8. DOMAIN DefaultRelease =
        {"upc", "title", "title_aliases", "artist", "featuring", "tracks", "producers",
         "release_date", "distributor_name", "cover_contributors", "offchain_extension"}
  BY DEF DefaultRelease
<1> QED BY <1>1, <1>2, <1>3, <1>4, <1>5, <1>6, <1>7, <1>8

-----------------------------------------------------------------------------
(* A completed form.                                                       *)

\* The results that leave only a rule between fields broken.
Cross == {Ok, CrossFieldInconsistency}
Mild(r) == AnySeq(r) /\ Within(r, Cross)

LEMMA MildBoth == ASSUME NEW a, Mild(a), NEW b, Mild(b) PROVE Mild(a \o b)
  BY OneAfterAnother, Zenon DEF Mild

LEMMA MildFirst == ASSUME NEW r, Mild(r) PROVE FirstError(r) \in Cross
<1>1. Ok \in Cross
  BY DEF Cross
<1> QED BY <1>1, FirstErrorFacts DEF Mild

LEMMA MildEach ==
  ASSUME NEW s, AnySeq(s), NEW r, r = [i \in DOMAIN s |-> r[i]], \A i \in DOMAIN s : r[i] \in Cross
  PROVE  Mild(r)
<1>1. AnySeq(r)
  BY EachIsAny
<1>2. DOMAIN r = DOMAIN s
  OBVIOUS
<1> QED BY <1>1, <1>2 DEF Mild, Within

LEMMA MildTuples ==
  ASSUME NEW a \in Cross
  PROVE  /\ Mild(<<a>>)
         /\ \A b \in Cross : Mild(<<a, b>>)
         /\ \A b, c \in Cross : Mild(<<a, b, c>>)
         /\ \A b, c, d \in Cross : Mild(<<a, b, c, d>>)
         /\ \A b, c, d, e \in Cross : Mild(<<a, b, c, d, e>>)
<1>1. \A s \in Seq(Cross) : Mild(s)
  <2>1. ASSUME NEW s \in Seq(Cross) PROVE Mild(s)
    <3>1. AnySeq(s)
      BY SeqIsAny
    <3>2. \A i \in DOMAIN s : s[i] \in Cross
      OBVIOUS
    <3> QED BY <3>1, <3>2 DEF Mild, Within
  <2> QED BY <2>1
<1>2. /\ <<a>> \in Seq(Cross)
      /\ \A b \in Cross : <<a, b>> \in Seq(Cross)
      /\ \A b, c \in Cross : <<a, b, c>> \in Seq(Cross)
  OBVIOUS
<1>3. \A b, c, d \in Cross : <<a, b, c, d>> \in Seq(Cross)
  OBVIOUS
<1>4. \A b, c, d, e \in Cross : <<a, b, c, d, e>> \in Seq(Cross)
  OBVIOUS
<1> QED BY <1>1, <1>2, <1>3, <1>4

LEMMA CrossRules ==
  /\ Ok \in Cross
  /\ \A b : Unless(b, CrossFieldInconsistency) \in Cross
  BY DEF Cross, Unless

LEMMA WithinRange ==
  ASSUME NEW S, NEW o \in Options(S)
  PROVE  ~\E n \in Range(o) : n \notin S
  BY DEF Range, Options, Some, None

LEMMA WorkTypeMild ==
  ASSUME NEW w, WorkTypePasses(w.work_type)
  PROVE  ValidateWorkType(w) \in Cross
<1> DEFINE sources == w.work_type.sources
           formed == [i \in DOMAIN sources |-> ValidateIswc(sources[i])]
<1>1. /\ AnySeq(sources) /\ \A i \in DOMAIN sources : ValidateIswc(sources[i]) = Ok
      /\ w.work_type.form \in Collages => Len(sources) >= 2
  BY DEF WorkTypePasses
<1>2. Mild(formed)
  <2>1. formed = [i \in DOMAIN sources |-> formed[i]] /\ \A i \in DOMAIN sources : formed[i] \in Cross
    BY <1>1, CrossRules
  <2> HIDE DEF formed, sources
  <2> QED BY <1>1, <2>1, MildEach
<1>3. CASE w.work_type.form \in Collages
  <2> DEFINE enough == Unless(Len(sources) < 2, OutOfBounds)
             first == << enough >>
             apart == [i \in DOMAIN sources |->
                        Unless(sources[i] = w.iswc \/ Repeated(sources, i), CrossFieldInconsistency)]
  <2>1. ValidateWorkType(w) = FirstError(first \o formed \o apart)
    BY <1>3 DEF ValidateWorkType, Each
  <2>2. enough = Ok
    <3>1. Len(sources) \in Nat
      <4> HIDE DEF sources
      <4> QED BY <1>1, AnyIsSeq
    <3>2. ~(Len(sources) < 2)
      BY <1>1, <1>3, <3>1
    <3> QED BY <3>2 DEF Unless
  <2>3. Mild(apart)
    <3>1. apart = [i \in DOMAIN sources |-> apart[i]] /\ \A i \in DOMAIN sources : apart[i] \in Cross
      BY CrossRules
    <3> HIDE DEF apart, sources
    <3> QED BY <1>1, <3>1, MildEach
  <2> HIDE DEF formed, apart, enough
  <2>4. Mild(first)
    BY <2>2, MildTuples, CrossRules
  <2> HIDE DEF first
  <2>5. Mild(first \o formed)
    BY <1>2, <2>4, MildBoth
  <2>6. Mild(first \o formed \o apart)
    BY <2>3, <2>5, MildBoth
  <2> QED BY <2>1, <2>6, MildFirst
<1>4. CASE w.work_type.form \notin Collages
  <2> DEFINE apart == [i \in DOMAIN sources |-> Unless(sources[i] = w.iswc, CrossFieldInconsistency)]
  <2>1. ValidateWorkType(w) = FirstError(formed \o apart)
    BY <1>4 DEF ValidateWorkType, Each
  <2>2. Mild(apart)
    <3>1. apart = [i \in DOMAIN sources |-> apart[i]] /\ \A i \in DOMAIN sources : apart[i] \in Cross
      BY CrossRules
    <3> HIDE DEF apart, sources
    <3> QED BY <1>1, <3>1, MildEach
  <2> HIDE DEF formed, apart
  <2>3. Mild(formed \o apart)
    BY <1>2, <2>2, MildBoth
  <2> QED BY <2>1, <2>3, MildFirst
<1> QED BY <1>3, <1>4

LEMMA SampleMild ==
  ASSUME NEW w, NEW i, ValidateWorkRef(w.samples[i]) = Ok
  PROVE  ValidateSample(w, i) \in Cross
<1> DEFINE a == ValidateWorkRef(w.samples[i])
           b == Unless(w.samples[i] = ByCode(w.iswc), CrossFieldInconsistency)
           c == Unless(Repeated(w.samples, i), CrossFieldInconsistency)
<1>1. ValidateSample(w, i) = FirstError(<< a, b, c >>)
  BY DEF ValidateSample
<1>2. a \in Cross /\ b \in Cross /\ c \in Cross
  BY CrossRules
<1> HIDE DEF a, b, c
<1>3. Mild(<< a, b, c >>)
  BY <1>2, MildTuples, Zenon
<1> QED BY <1>1, <1>3, MildFirst

LEMMA TrackMild ==
  ASSUME NEW s, NEW i, s[i].number # 0, ValidateRecordingRef(s[i].recording) = Ok
  PROVE  ValidateTrack(s, i) \in Cross
<1> DEFINE a == Unless(s[i].number = 0, OutOfBounds)
           b == ValidateRecordingRef(s[i].recording)
           c == Unless(\E j \in 1..(i - 1) : s[j].recording = s[i].recording,
                       CrossFieldInconsistency)
           d == Unless(\E j \in 1..(i - 1) : s[j].number = s[i].number, CrossFieldInconsistency)
<1>1. ValidateTrack(s, i) = FirstError(<< a, b, c, d >>)
  BY DEF ValidateTrack
<1>2. a = Ok
  BY DEF Unless
<1>3. a \in Cross /\ b \in Cross /\ c \in Cross /\ d \in Cross
  BY <1>2, CrossRules
<1> HIDE DEF a, b, c, d
<1>4. Mild(<< a, b, c, d >>)
  BY <1>3, MildTuples, Zenon
<1> QED BY <1>1, <1>4, MildFirst

\* The prompts of each kind.
WorkFields ==
  {"iswc", "title", "creation_year", "bpm", "work_type", "samples", "creators",
   "classical_info", "offchain_extension", "instrumental", "explicit_lyrics"}
RecordingFields ==
  {"isrc", "title", "title_aliases", "artist", "featuring", "work", "record_year",
   "performers", "producers", "bpm", "places", "contributors", "offchain_extension",
   "genre", "sub_genre"}
ReleaseFields ==
  {"upc", "title", "title_aliases", "artist", "featuring", "tracks", "producers",
   "release_date", "distributor_name", "cover_contributors", "offchain_extension"}

PromptedFields(k) ==
  CASE k = "MusicalWork" -> WorkFields [] k = "Recording" -> RecordingFields
    [] k = "Release" -> ReleaseFields

LEMMA WorkPrompted ==
  /\ Len(WorkPrompts) = 11
  /\ \A i \in 1..11 : WorkPrompts[i] \in WorkFields
  /\ \A f \in WorkFields : \E i \in 1..11 : WorkPrompts[i] = f
<1>1. Len(WorkPrompts) = 11 /\ \A i \in 1..11 : WorkPrompts[i] \in WorkFields
  BY DEF WorkPrompts, WorkFields
<1>2. /\ WorkPrompts[1] = "iswc" /\ WorkPrompts[2] = "title"
      /\ WorkPrompts[3] = "creation_year" /\ WorkPrompts[4] = "instrumental"
      /\ WorkPrompts[5] = "explicit_lyrics" /\ WorkPrompts[6] = "bpm"
      /\ WorkPrompts[7] = "work_type" /\ WorkPrompts[8] = "samples"
      /\ WorkPrompts[9] = "creators" /\ WorkPrompts[10] = "classical_info"
      /\ WorkPrompts[11] = "offchain_extension"
  BY DEF WorkPrompts
<1>3. ASSUME NEW f \in WorkFields PROVE \E i \in 1..11 : WorkPrompts[i] = f
  BY <1>2 DEF WorkFields
<1> QED BY <1>1, <1>3

LEMMA RecordingPrompted ==
  /\ Len(RecordingPrompts) = 15
  /\ \A i \in 1..15 : RecordingPrompts[i] \in RecordingFields
  /\ \A f \in RecordingFields : \E i \in 1..15 : RecordingPrompts[i] = f
<1>1. Len(RecordingPrompts) = 15 /\ \A i \in 1..15 : RecordingPrompts[i] \in RecordingFields
  BY DEF RecordingPrompts, RecordingFields
<1>2. /\ RecordingPrompts[1] = "isrc" /\ RecordingPrompts[2] = "title"
      /\ RecordingPrompts[3] = "title_aliases" /\ RecordingPrompts[4] = "artist"
      /\ RecordingPrompts[5] = "featuring" /\ RecordingPrompts[6] = "work"
      /\ RecordingPrompts[7] = "genre" /\ RecordingPrompts[8] = "sub_genre"
      /\ RecordingPrompts[9] = "record_year" /\ RecordingPrompts[10] = "performers"
      /\ RecordingPrompts[11] = "producers" /\ RecordingPrompts[12] = "bpm"
      /\ RecordingPrompts[13] = "places" /\ RecordingPrompts[14] = "contributors"
      /\ RecordingPrompts[15] = "offchain_extension"
  BY DEF RecordingPrompts
<1>3. ASSUME NEW f \in RecordingFields PROVE \E i \in 1..15 : RecordingPrompts[i] = f
  BY <1>2 DEF RecordingFields
<1> QED BY <1>1, <1>3

LEMMA ReleasePrompted ==
  /\ Len(ReleasePrompts) = 11
  /\ \A i \in 1..11 : ReleasePrompts[i] \in ReleaseFields
  /\ \A f \in ReleaseFields : \E i \in 1..11 : ReleasePrompts[i] = f
<1>1. Len(ReleasePrompts) = 11 /\ \A i \in 1..11 : ReleasePrompts[i] \in ReleaseFields
  BY DEF ReleasePrompts, ReleaseFields
<1>2. /\ ReleasePrompts[1] = "upc" /\ ReleasePrompts[2] = "title"
      /\ ReleasePrompts[3] = "title_aliases" /\ ReleasePrompts[4] = "artist"
      /\ ReleasePrompts[5] = "featuring" /\ ReleasePrompts[6] = "tracks"
      /\ ReleasePrompts[7] = "producers" /\ ReleasePrompts[8] = "release_date"
      /\ ReleasePrompts[9] = "distributor_name" /\ ReleasePrompts[10] = "cover_contributors"
      /\ ReleasePrompts[11] = "offchain_extension"
  BY DEF ReleasePrompts
<1>3. ASSUME NEW f \in ReleaseFields PROVE \E i \in 1..11 : ReleasePrompts[i] = f
  BY <1>2 DEF ReleaseFields
<1> QED BY <1>1, <1>3

LEMMA KindPrompted ==
  ASSUME NEW k \in MiddsKinds
  PROVE  /\ Len(Prompts(k)) \in Nat
         /\ \A i \in 1..Len(Prompts(k)) : Prompts(k)[i] \in PromptedFields(k)
         /\ \A f \in PromptedFields(k) : \E i \in 1..Len(Prompts(k)) : Prompts(k)[i] = f
<1>1. CASE k = "MusicalWork"
  <2>1. Prompts(k) = WorkPrompts /\ PromptedFields(k) = WorkFields
    BY <1>1 DEF Prompts, PromptedFields
  <2> QED BY <2>1, WorkPrompted
<1>2. CASE k = "Recording"
  <2>1. Prompts(k) = RecordingPrompts /\ PromptedFields(k) = RecordingFields
    BY <1>2 DEF Prompts, PromptedFields
  <2> QED BY <2>1, RecordingPrompted
<1>3. CASE k = "Release"
  <2>1. Prompts(k) = ReleasePrompts /\ PromptedFields(k) = ReleaseFields
    BY <1>3 DEF Prompts, PromptedFields
  <2> QED BY <2>1, ReleasePrompted
<1> QED BY <1>1, <1>2, <1>3 DEF MiddsKinds

\* An answer passes, whether given or kept from the sample.
LEMMA AnswersPass ==
  ASSUME TypedInAscii, NEW k \in MiddsKinds, NEW f \in PromptedFields(k), NEW form, NEW v,
         v \in Answers(k, f, form) \/ v = SamplePayload(k)[f]
  PROVE  FieldPasses(k, f, v)
<1>1. CASE k = "MusicalWork"
  <2>1. /\ f \in WorkFields /\ Answers(k, f, form) = WorkAnswers(f, form)
        /\ SamplePayload(k) = DefaultWork
    BY <1>1 DEF PromptedFields, Answers, SamplePayload
  <2>2. f \in DOMAIN DefaultWork
    BY <2>1 DEF WorkFields, DefaultWork
  <2>3. CASE v \in WorkAnswers(f, form)
    BY <1>1, <2>1, <2>3, WorkAnswersPass DEF WorkFields
  <2>4. CASE v = DefaultWork[f]
    BY <1>1, <2>2, <2>4, WorkSamplePasses
  <2> QED BY <2>1, <2>3, <2>4
<1>2. CASE k = "Recording"
  <2>1. /\ f \in RecordingFields /\ Answers(k, f, form) = RecordingAnswers(f, form)
        /\ SamplePayload(k) = DefaultRecording
    BY <1>2 DEF PromptedFields, Answers, SamplePayload
  <2>2. f \in DOMAIN DefaultRecording
    BY <2>1 DEF RecordingFields, DefaultRecording
  <2>3. CASE v \in RecordingAnswers(f, form)
    BY <1>2, <2>1, <2>3, RecordingAnswersPass DEF RecordingFields
  <2>4. CASE v = DefaultRecording[f]
    BY <1>2, <2>2, <2>4, RecordingSamplePasses
  <2> QED BY <2>1, <2>3, <2>4
<1>3. CASE k = "Release"
  <2>1. /\ f \in ReleaseFields /\ Answers(k, f, form) = ReleaseAnswers(f, form)
        /\ SamplePayload(k) = DefaultRelease
    BY <1>3 DEF PromptedFields, Answers, SamplePayload
  <2>2. f \in DOMAIN DefaultRelease
    BY <2>1 DEF ReleaseFields, DefaultRelease
  <2>3. CASE v \in ReleaseAnswers(f, form)
    BY <1>3, <2>1, <2>3, ReleaseAnswersPass DEF ReleaseFields
  <2>4. CASE v = DefaultRelease[f]
    BY <1>3, <2>2, <2>4, ReleaseSamplePasses
  <2> QED BY <2>1, <2>3, <2>4
<1> QED BY <1>1, <1>2, <1>3 DEF MiddsKinds

\* All fields of a form pass.
FormPasses(k, w) == \A f \in PromptedFields(k) : FieldPasses(k, f, w[f])

\* The results of a rule on each entry of a list whose entries pass.
LEMMA ListMild ==
  ASSUME NEW l, AnySeq(l), NEW r, r = [i \in DOMAIN l |-> r[i]], \A i \in DOMAIN l : r[i] = Ok
  PROVE  Mild(r)
<1>1. \A i \in DOMAIN l : r[i] \in Cross
  BY CrossRules
<1> QED BY <1>1, MildEach

LEMMA WorkJudged ==
  ASSUME NEW w, FormPasses("MusicalWork", w)
  PROVE  /\ ValidateWork(w) \in Cross
         /\ ValidateWork(w) = Ok <=> ~Clash("MusicalWork", w)
<1>1. \A f \in WorkFields : FieldPasses("MusicalWork", f, w[f])
  BY DEF FormPasses, PromptedFields
<1>2. /\ ValidateIswc(w.iswc) = Ok /\ NonEmpty(w.title) = Ok
      /\ ValidateOffchain(w.offchain_extension) = Ok
  <2>1. \A f \in {"iswc", "title", "offchain_extension"} : ValueStored("MusicalWork", f, w[f])
    BY <1>1 DEF WorkFields, FieldPasses, Flags, Lists
  <2> QED BY <2>1 DEF ValueStored, IdKinds, Validate
<1>3. w.creation_year \in Options(YearRange) /\ w.bpm \in Options(BpmRange)
  BY <1>1 DEF WorkFields, FieldPasses, Flags, Lists
<1>4. WorkTypePasses(w.work_type) /\ OfOption(ValidateClassical, w.classical_info) = Ok
  BY <1>1 DEF WorkFields, FieldPasses, Flags, Lists
<1> DEFINE creators == w.creators
           samples == w.samples
<1>5. /\ AnySeq(creators) /\ \A i \in DOMAIN creators : ValidateCreator(creators[i]) = Ok
      /\ creators # <<>>
      /\ AnySeq(samples) /\ \A i \in DOMAIN samples : ValidateWorkRef(samples[i]) = Ok
  <2>1. ListPasses("MusicalWork", "creators", creators) /\ ListPasses("MusicalWork", "samples", samples)
    BY <1>1 DEF WorkFields, FieldPasses, Flags, Lists
  <2> HIDE DEF creators, samples
  <2> QED BY <2>1 DEF ListPasses, ValueStored, IdKinds
<1> DEFINE head == << ValidateIswc(w.iswc),
                      NonEmpty(w.title),
                      OfOption(LAMBDA y : InRange(y, YearRange), w.creation_year),
                      OfOption(LAMBDA b : InRange(b, BpmRange), w.bpm),
                      Unless(creators = <<>>, EmptyMandatoryField) >>
           named == [i \in DOMAIN creators |-> ValidateCreator(creators[i])]
           typed == << ValidateWorkType(w) >>
           sampled == [i \in DOMAIN samples |-> ValidateSample(w, i)]
           rest == << OfOption(ValidateClassical, w.classical_info),
                      ValidateOffchain(w.offchain_extension) >>
<1>6. ValidateWork(w) = FirstError(head \o named \o typed \o sampled \o rest)
  BY DEF ValidateWork, Each
<1>7. Mild(head)
  <2> DEFINE code == ValidateIswc(w.iswc)
             title == NonEmpty(w.title)
             year == OfOption(LAMBDA y : InRange(y, YearRange), w.creation_year)
             beat == OfOption(LAMBDA b : InRange(b, BpmRange), w.bpm)
             some == Unless(creators = <<>>, EmptyMandatoryField)
  <2>1. year \in Cross
    <3>1. year = Ok <=> ~\E y \in Range(w.creation_year) : y \notin YearRange
      BY <1>3, NumberRule
    <3> QED BY <1>3, <3>1, WithinRange, CrossRules
  <2>2. beat \in Cross
    <3>1. beat = Ok <=> ~\E b \in Range(w.bpm) : b \notin BpmRange
      BY <1>3, NumberRule
    <3> QED BY <1>3, <3>1, WithinRange, CrossRules
  <2>3. some = Ok
    BY <1>5 DEF Unless
  <2>4. code \in Cross /\ title \in Cross /\ some \in Cross
    BY <1>2, <2>3, CrossRules
  <2>5. head = << code, title, year, beat, some >>
    OBVIOUS
  <2> HIDE DEF head, code, title, year, beat, some
  <2>6. Mild(<< code, title, year, beat, some >>)
    BY <2>1, <2>2, <2>4, MildTuples, Zenon
  <2> QED BY <2>5, <2>6
<1>8. Mild(named)
  <2>1. named = [i \in DOMAIN creators |-> named[i]] /\ \A i \in DOMAIN creators : named[i] = Ok
    BY <1>5
  <2> HIDE DEF named, creators
  <2> QED BY <1>5, <2>1, ListMild
<1>9. Mild(typed)
  <2>1. ValidateWorkType(w) \in Cross
    BY <1>4, WorkTypeMild
  <2> QED BY <2>1, MildTuples
<1>10. Mild(sampled)
  <2>1. \A i \in DOMAIN samples : ValidateSample(w, i) \in Cross
    BY <1>5, SampleMild
  <2>2. sampled = [i \in DOMAIN samples |-> sampled[i]] /\ \A i \in DOMAIN samples : sampled[i] \in Cross
    BY <2>1
  <2> HIDE DEF sampled, samples
  <2> QED BY <1>5, <2>2, MildEach
<1>11. Mild(rest)
  <2> DEFINE classical == OfOption(ValidateClassical, w.classical_info)
             off == ValidateOffchain(w.offchain_extension)
  <2>1. classical \in Cross /\ off \in Cross /\ rest = << classical, off >>
    BY <1>2, <1>4, CrossRules
  <2> HIDE DEF rest, classical, off
  <2>2. Mild(<< classical, off >>)
    BY <2>1, MildTuples, Zenon
  <2> QED BY <2>1, <2>2
<1> HIDE DEF head, named, typed, sampled, rest
<1> DEFINE upTo1 == head \o named
           upTo2 == upTo1 \o typed
           upTo3 == upTo2 \o sampled
           all == upTo3 \o rest
<1>12. ValidateWork(w) = FirstError(all)
  BY <1>6
<1>13. Mild(upTo1)
  BY <1>7, <1>8, MildBoth
<1>14. Mild(upTo2)
  <2> HIDE DEF upTo1
  <2> QED BY <1>13, <1>9, MildBoth
<1>15. Mild(upTo3)
  <2> HIDE DEF upTo2
  <2> QED BY <1>14, <1>10, MildBoth
<1>16. Mild(all)
  <2> HIDE DEF upTo3
  <2> QED BY <1>15, <1>11, MildBoth
<1> HIDE DEF all
<1>17. WorkSound(w, YearRange, BpmRange)
  BY <1>2, <1>3, <1>4, <1>5 DEF WorkSound, WorkTypePasses
<1>18. UncheckedByBuild("MusicalWork", w) <=> Clash("MusicalWork", w)
  <2>1. /\ ~\E y \in Range(w.creation_year) : y \notin YearRange
        /\ ~\E b \in Range(w.bpm) : b \notin BpmRange
    BY <1>3, WithinRange
  <2>2. /\ ~\E code \in Range(w.work_type.sources) : ValidateIswc(code) # Ok
        /\ ~(w.work_type.form \in Collages /\ Len(w.work_type.sources) < 2)
    <3>1. Len(w.work_type.sources) \in Nat
      BY <1>4, AnyIsSeq DEF WorkTypePasses
    <3> QED BY <1>4, <3>1 DEF WorkTypePasses, Range
  <2> QED BY <2>1, <2>2 DEF UncheckedByBuild
<1> QED BY <1>12, <1>16, <1>17, <1>18, MildFirst, WorkRuling

LEMMA RecordingJudged ==
  ASSUME NEW r, FormPasses("Recording", r)
  PROVE  /\ ValidateRecording(r) \in Cross
         /\ ValidateRecording(r) = Ok <=> ~Clash("Recording", r)
<1>1. \A f \in RecordingFields : FieldPasses("Recording", f, r[f])
  BY DEF FormPasses, PromptedFields
<1>2. /\ ValidateIsrc(r.isrc) = Ok /\ NonEmpty(r.title) = Ok /\ ValidateParty(r.artist) = Ok
      /\ ValidateWorkRef(r.work) = Ok /\ OfOption(ValidatePlaces, r.places) = Ok
      /\ ValidateOffchain(r.offchain_extension) = Ok
  <2>1. \A f \in {"isrc", "title", "artist", "work", "places", "offchain_extension"} :
          ValueStored("Recording", f, r[f])
    BY <1>1 DEF RecordingFields, FieldPasses, Flags, Lists
  <2> QED BY <2>1 DEF ValueStored, IdKinds, Validate
<1>3. r.record_year \in Options(YearRange) /\ r.bpm \in Options(BpmRange)
  BY <1>1 DEF RecordingFields, FieldPasses, Flags, Lists
<1>4. /\ AnySeq(r.title_aliases) /\ \A i \in DOMAIN r.title_aliases : NonEmpty(r.title_aliases[i]) = Ok
      /\ AnySeq(r.featuring) /\ \A i \in DOMAIN r.featuring : ValidateParty(r.featuring[i]) = Ok
      /\ AnySeq(r.performers)
      /\ \A i \in DOMAIN r.performers : ValidatePerformerId(r.performers[i]) = Ok
      /\ AnySeq(r.producers) /\ \A i \in DOMAIN r.producers : ValidateIsni(r.producers[i]) = Ok
      /\ AnySeq(r.contributors) /\ \A i \in DOMAIN r.contributors : ValidateParty(r.contributors[i]) = Ok
  <2>1. \A f \in {"title_aliases", "featuring", "performers", "producers", "contributors"} :
          ListPasses("Recording", f, r[f])
    BY <1>1 DEF RecordingFields, FieldPasses, Flags, Lists
  <2>2. \A f \in {"title_aliases", "featuring", "performers", "producers", "contributors"} :
          AnySeq(r[f]) /\ \A i \in DOMAIN r[f] : ValueStored("Recording", f, r[f][i])
    BY <2>1 DEF ListPasses
  <2> QED BY <2>2 DEF ValueStored, IdKinds
<1> DEFINE head == << ValidateIsrc(r.isrc), NonEmpty(r.title) >>
           aliases == [i \in DOMAIN r.title_aliases |-> NonEmpty(r.title_aliases[i])]
           typed == << OfOption(LAMBDA y : InRange(y, YearRange), r.record_year),
                       OfOption(LAMBDA b : InRange(b, BpmRange), r.bpm),
                       Unless(r.sub_genre # None /\ r.genre = None, CrossFieldInconsistency),
                       ValidateParty(r.artist) >>
           featured == [i \in DOMAIN r.featuring |-> ValidateParty(r.featuring[i])]
           work == << ValidateWorkRef(r.work) >>
           performed == [i \in DOMAIN r.performers |-> ValidatePerformerId(r.performers[i])]
           produced == [i \in DOMAIN r.producers |-> ValidateIsni(r.producers[i])]
           helped == [i \in DOMAIN r.contributors |-> ValidateParty(r.contributors[i])]
           rest == << OfOption(ValidatePlaces, r.places), ValidateOffchain(r.offchain_extension) >>
<1>5. ValidateRecording(r) =
        FirstError(head \o aliases \o typed \o featured \o work \o performed \o produced \o helped
                   \o rest)
  BY DEF ValidateRecording, Each
<1>6. Mild(head)
  <2> DEFINE code == ValidateIsrc(r.isrc)
             title == NonEmpty(r.title)
  <2>1. code \in Cross /\ title \in Cross /\ head = << code, title >>
    BY <1>2, CrossRules
  <2> HIDE DEF head, code, title
  <2>2. Mild(<< code, title >>)
    BY <2>1, MildTuples, Zenon
  <2> QED BY <2>1, <2>2
<1>7. Mild(aliases)
  <2>1. aliases = [i \in DOMAIN r.title_aliases |-> aliases[i]]
        /\ \A i \in DOMAIN r.title_aliases : aliases[i] = Ok
    BY <1>4
  <2> HIDE DEF aliases
  <2> QED BY <1>4, <2>1, ListMild
<1>8. Mild(typed)
  <2> DEFINE year == OfOption(LAMBDA y : InRange(y, YearRange), r.record_year)
             beat == OfOption(LAMBDA b : InRange(b, BpmRange), r.bpm)
             styled == Unless(r.sub_genre # None /\ r.genre = None, CrossFieldInconsistency)
             artist == ValidateParty(r.artist)
  <2>1. year \in Cross
    <3>1. year = Ok <=> ~\E y \in Range(r.record_year) : y \notin YearRange
      BY <1>3, NumberRule
    <3> QED BY <1>3, <3>1, WithinRange, CrossRules
  <2>2. beat \in Cross
    <3>1. beat = Ok <=> ~\E b \in Range(r.bpm) : b \notin BpmRange
      BY <1>3, NumberRule
    <3> QED BY <1>3, <3>1, WithinRange, CrossRules
  <2>3. styled \in Cross /\ artist \in Cross
    BY <1>2, CrossRules
  <2>4. typed = << year, beat, styled, artist >>
    OBVIOUS
  <2> HIDE DEF typed, year, beat, styled, artist
  <2>5. Mild(<< year, beat, styled, artist >>)
    BY <2>1, <2>2, <2>3, MildTuples, Zenon
  <2> QED BY <2>4, <2>5
<1>9. Mild(featured)
  <2>1. featured = [i \in DOMAIN r.featuring |-> featured[i]]
        /\ \A i \in DOMAIN r.featuring : featured[i] = Ok
    BY <1>4
  <2> HIDE DEF featured
  <2> QED BY <1>4, <2>1, ListMild
<1>10. Mild(work)
  <2>1. ValidateWorkRef(r.work) \in Cross
    BY <1>2, CrossRules
  <2> QED BY <2>1, MildTuples
<1>11. Mild(performed)
  <2>1. performed = [i \in DOMAIN r.performers |-> performed[i]]
        /\ \A i \in DOMAIN r.performers : performed[i] = Ok
    BY <1>4
  <2> HIDE DEF performed
  <2> QED BY <1>4, <2>1, ListMild
<1>12. Mild(produced)
  <2>1. produced = [i \in DOMAIN r.producers |-> produced[i]]
        /\ \A i \in DOMAIN r.producers : produced[i] = Ok
    BY <1>4
  <2> HIDE DEF produced
  <2> QED BY <1>4, <2>1, ListMild
<1>13. Mild(helped)
  <2>1. helped = [i \in DOMAIN r.contributors |-> helped[i]]
        /\ \A i \in DOMAIN r.contributors : helped[i] = Ok
    BY <1>4
  <2> HIDE DEF helped
  <2> QED BY <1>4, <2>1, ListMild
<1>14. Mild(rest)
  <2> DEFINE places == OfOption(ValidatePlaces, r.places)
             off == ValidateOffchain(r.offchain_extension)
  <2>1. places \in Cross /\ off \in Cross /\ rest = << places, off >>
    BY <1>2, CrossRules
  <2> HIDE DEF rest, places, off
  <2>2. Mild(<< places, off >>)
    BY <2>1, MildTuples, Zenon
  <2> QED BY <2>1, <2>2
<1> HIDE DEF head, aliases, typed, featured, work, performed, produced, helped, rest
<1> DEFINE upTo1 == head \o aliases
           upTo2 == upTo1 \o typed
           upTo3 == upTo2 \o featured
           upTo4 == upTo3 \o work
           upTo5 == upTo4 \o performed
           upTo6 == upTo5 \o produced
           upTo7 == upTo6 \o helped
           all == upTo7 \o rest
<1>15. ValidateRecording(r) = FirstError(all)
  BY <1>5
<1>16. Mild(upTo1)
  BY <1>6, <1>7, MildBoth
<1>17. Mild(upTo2)
  <2> HIDE DEF upTo1
  <2> QED BY <1>16, <1>8, MildBoth
<1>18. Mild(upTo3)
  <2> HIDE DEF upTo2
  <2> QED BY <1>17, <1>9, MildBoth
<1>19. Mild(upTo4)
  <2> HIDE DEF upTo3
  <2> QED BY <1>18, <1>10, MildBoth
<1>20. Mild(upTo5)
  <2> HIDE DEF upTo4
  <2> QED BY <1>19, <1>11, MildBoth
<1>21. Mild(upTo6)
  <2> HIDE DEF upTo5
  <2> QED BY <1>20, <1>12, MildBoth
<1>22. Mild(upTo7)
  <2> HIDE DEF upTo6
  <2> QED BY <1>21, <1>13, MildBoth
<1>23. Mild(all)
  <2> HIDE DEF upTo7
  <2> QED BY <1>22, <1>14, MildBoth
<1> HIDE DEF all
<1>24. RecordingSound(r, YearRange, BpmRange)
  BY <1>2, <1>3, <1>4 DEF RecordingSound
<1>25. UncheckedByBuild("Recording", r) <=> Clash("Recording", r)
  <2>1. /\ ~\E y \in Range(r.record_year) : y \notin YearRange
        /\ ~\E b \in Range(r.bpm) : b \notin BpmRange
    BY <1>3, WithinRange
  <2> QED BY <2>1 DEF UncheckedByBuild
<1> QED BY <1>15, <1>23, <1>24, <1>25, MildFirst, RecordingRuling

LEMMA ReleaseJudged ==
  ASSUME NEW r, FormPasses("Release", r)
  PROVE  /\ ValidateRelease(r) \in Cross
         /\ ValidateRelease(r) = Ok <=> ~Clash("Release", r)
<1>1. \A f \in ReleaseFields : FieldPasses("Release", f, r[f])
  BY DEF FormPasses, PromptedFields
<1>2. /\ ValidateUpc(r.upc) = Ok /\ NonEmpty(r.title) = Ok /\ ValidateParty(r.artist) = Ok
      /\ NonEmpty(r.distributor_name) = Ok /\ ValidateOffchain(r.offchain_extension) = Ok
  <2>1. \A f \in {"upc", "title", "artist", "distributor_name", "offchain_extension"} :
          ValueStored("Release", f, r[f])
    BY <1>1 DEF ReleaseFields, FieldPasses, Flags, Lists
  <2> QED BY <2>1 DEF ValueStored, IdKinds, Validate
<1>3. ValidateDate(r.release_date) = Ok
  BY <1>1 DEF ReleaseFields, FieldPasses, Flags, Lists
<1>4. /\ AnySeq(r.title_aliases) /\ \A i \in DOMAIN r.title_aliases : NonEmpty(r.title_aliases[i]) = Ok
      /\ AnySeq(r.featuring) /\ \A i \in DOMAIN r.featuring : ValidateParty(r.featuring[i]) = Ok
      /\ AnySeq(r.tracks) /\ r.tracks # <<>>
      /\ AnySeq(r.producers) /\ \A i \in DOMAIN r.producers : ValidateProducer(r.producers[i]) = Ok
      /\ AnySeq(r.cover_contributors)
      /\ \A i \in DOMAIN r.cover_contributors : NonEmpty(r.cover_contributors[i]) = Ok
  <2>1. \A f \in {"title_aliases", "featuring", "tracks", "producers", "cover_contributors"} :
          ListPasses("Release", f, r[f])
    BY <1>1 DEF ReleaseFields, FieldPasses, Flags, Lists
  <2>2. \A f \in {"title_aliases", "featuring", "tracks", "producers", "cover_contributors"} :
          AnySeq(r[f]) /\ \A i \in DOMAIN r[f] : ValueStored("Release", f, r[f][i])
    BY <2>1 DEF ListPasses
  <2>3. r["tracks"] # <<>>
    BY <2>1 DEF ListPasses
  <2> QED BY <2>2, <2>3 DEF ValueStored, IdKinds
<1>4a. \A i \in DOMAIN r.tracks :
         r.tracks[i].number # 0 /\ ValidateRecordingRef(r.tracks[i].recording) = Ok
  <2>1. ListPasses("Release", "tracks", r["tracks"])
    BY <1>1 DEF ReleaseFields, FieldPasses, Flags, Lists
  <2> QED BY <2>1 DEF ListPasses, ValueStored, IdKinds
<1> DEFINE head == << ValidateUpc(r.upc), NonEmpty(r.title) >>
           aliases == [i \in DOMAIN r.title_aliases |-> NonEmpty(r.title_aliases[i])]
           artist == << ValidateParty(r.artist) >>
           featured == [i \in DOMAIN r.featuring |-> ValidateParty(r.featuring[i])]
           some == << Unless(r.tracks = <<>>, EmptyMandatoryField) >>
           tracked == [i \in DOMAIN r.tracks |-> ValidateTrack(r.tracks, i)]
           produced == [i \in DOMAIN r.producers |-> ValidateProducer(r.producers[i])]
           dated == << ValidateDate(r.release_date), NonEmpty(r.distributor_name) >>
           covers == [i \in DOMAIN r.cover_contributors |-> NonEmpty(r.cover_contributors[i])]
           rest == << ValidateOffchain(r.offchain_extension) >>
<1>5. ValidateRelease(r) =
        FirstError(head \o aliases \o artist \o featured \o some \o tracked \o produced \o dated
                   \o covers \o rest)
  BY DEF ValidateRelease, Each
<1>6. Mild(head)
  <2> DEFINE code == ValidateUpc(r.upc)
             title == NonEmpty(r.title)
  <2>1. code \in Cross /\ title \in Cross /\ head = << code, title >>
    BY <1>2, CrossRules
  <2> HIDE DEF head, code, title
  <2>2. Mild(<< code, title >>)
    BY <2>1, MildTuples, Zenon
  <2> QED BY <2>1, <2>2
<1>7. Mild(aliases)
  <2>1. aliases = [i \in DOMAIN r.title_aliases |-> aliases[i]]
        /\ \A i \in DOMAIN r.title_aliases : aliases[i] = Ok
    BY <1>4
  <2> HIDE DEF aliases
  <2> QED BY <1>4, <2>1, ListMild
<1>8. Mild(artist)
  <2>1. ValidateParty(r.artist) \in Cross
    BY <1>2, CrossRules
  <2> QED BY <2>1, MildTuples
<1>9. Mild(featured)
  <2>1. featured = [i \in DOMAIN r.featuring |-> featured[i]]
        /\ \A i \in DOMAIN r.featuring : featured[i] = Ok
    BY <1>4
  <2> HIDE DEF featured
  <2> QED BY <1>4, <2>1, ListMild
<1>10. Mild(some)
  <2>1. Unless(r.tracks = <<>>, EmptyMandatoryField) \in Cross
    BY <1>4, CrossRules DEF Unless
  <2> QED BY <2>1, MildTuples
<1>11. Mild(tracked)
  <2>1. \A i \in DOMAIN r.tracks : ValidateTrack(r.tracks, i) \in Cross
    BY <1>4a, TrackMild
  <2>2. tracked = [i \in DOMAIN r.tracks |-> tracked[i]]
        /\ \A i \in DOMAIN r.tracks : tracked[i] \in Cross
    BY <2>1
  <2> HIDE DEF tracked
  <2> QED BY <1>4, <2>2, MildEach
<1>12. Mild(produced)
  <2>1. produced = [i \in DOMAIN r.producers |-> produced[i]]
        /\ \A i \in DOMAIN r.producers : produced[i] = Ok
    BY <1>4
  <2> HIDE DEF produced
  <2> QED BY <1>4, <2>1, ListMild
<1>13. Mild(dated)
  <2> DEFINE date == ValidateDate(r.release_date)
             seller == NonEmpty(r.distributor_name)
  <2>1. date \in Cross /\ seller \in Cross /\ dated = << date, seller >>
    BY <1>2, <1>3, CrossRules
  <2> HIDE DEF dated, date, seller
  <2>2. Mild(<< date, seller >>)
    BY <2>1, MildTuples, Zenon
  <2> QED BY <2>1, <2>2
<1>14. Mild(covers)
  <2>1. covers = [i \in DOMAIN r.cover_contributors |-> covers[i]]
        /\ \A i \in DOMAIN r.cover_contributors : covers[i] = Ok
    BY <1>4
  <2> HIDE DEF covers
  <2> QED BY <1>4, <2>1, ListMild
<1>15. Mild(rest)
  <2>1. ValidateOffchain(r.offchain_extension) \in Cross
    BY <1>2, CrossRules
  <2> QED BY <2>1, MildTuples
<1> HIDE DEF head, aliases, artist, featured, some, tracked, produced, dated, covers, rest
<1> DEFINE upTo1 == head \o aliases
           upTo2 == upTo1 \o artist
           upTo3 == upTo2 \o featured
           upTo4 == upTo3 \o some
           upTo5 == upTo4 \o tracked
           upTo6 == upTo5 \o produced
           upTo7 == upTo6 \o dated
           upTo8 == upTo7 \o covers
           all == upTo8 \o rest
<1>16. ValidateRelease(r) = FirstError(all)
  BY <1>5
<1>17. Mild(upTo1)
  BY <1>6, <1>7, MildBoth
<1>18. Mild(upTo2)
  <2> HIDE DEF upTo1
  <2> QED BY <1>17, <1>8, MildBoth
<1>19. Mild(upTo3)
  <2> HIDE DEF upTo2
  <2> QED BY <1>18, <1>9, MildBoth
<1>20. Mild(upTo4)
  <2> HIDE DEF upTo3
  <2> QED BY <1>19, <1>10, MildBoth
<1>21. Mild(upTo5)
  <2> HIDE DEF upTo4
  <2> QED BY <1>20, <1>11, MildBoth
<1>22. Mild(upTo6)
  <2> HIDE DEF upTo5
  <2> QED BY <1>21, <1>12, MildBoth
<1>23. Mild(upTo7)
  <2> HIDE DEF upTo6
  <2> QED BY <1>22, <1>13, MildBoth
<1>24. Mild(upTo8)
  <2> HIDE DEF upTo7
  <2> QED BY <1>23, <1>14, MildBoth
<1>25. Mild(all)
  <2> HIDE DEF upTo8
  <2> QED BY <1>24, <1>15, MildBoth
<1> HIDE DEF all
<1>26. ReleaseSound(r)
  BY <1>2, <1>4, <1>4a DEF ReleaseSound
<1>27. UncheckedByBuild("Release", r) <=> Clash("Release", r)
  <2>1. ~\E t \in Range(r.tracks) : t.number = 0
    BY <1>4a DEF Range
  <2>2. ~(r.release_date.month \notin 1..12 \/ r.release_date.day \notin 1..31)
    BY <1>3 DEF ValidateDate, Unless, Ok, OutOfBounds
  <2> QED BY <2>1, <2>2 DEF UncheckedByBuild
<1> QED BY <1>16, <1>25, <1>26, <1>27, MildFirst, ReleaseRuling

\* A form whose answers all passed breaks a rule between fields or none, and
\* it breaks one exactly if two of its answers clash.
LEMMA FormJudged ==
  ASSUME NEW k \in MiddsKinds, NEW w, FormPasses(k, w)
  PROVE  /\ ValidateFormat(k, w) \in {Ok, CrossFieldInconsistency}
         /\ ValidateFormat(k, w) = Ok <=> ~Clash(k, w)
<1>1. CASE k = "MusicalWork"
  BY <1>1, WorkJudged DEF ValidateFormat, Cross
<1>2. CASE k = "Recording"
  BY <1>2, RecordingJudged DEF ValidateFormat, Cross
<1>3. CASE k = "Release"
  BY <1>3, ReleaseJudged DEF ValidateFormat, Cross
<1> QED BY <1>1, <1>2, <1>3 DEF MiddsKinds

-----------------------------------------------------------------------------
(* The sessions with the form.                                             *)

\* The first n prompts of a form have been answered, and every answer passes.
AnsweredUpTo(n) ==
  \A i \in 1..n : /\ Prompts(kind)[i] \in DOMAIN entry
                  /\ FieldPasses(kind, Prompts(kind)[i], entry[Prompts(kind)[i]])

\* What is there of a form: the answers to the prompts before this one, all
\* passing; once the sub-genre is answered it goes with the genre.
FormFilled ==
  /\ kind \in MiddsKinds /\ step \in 1..(Len(Prompts(kind)) + 1)
  /\ DOMAIN entry = {Prompts(kind)[i] : i \in 1..(step - 1)}
  /\ AnsweredUpTo(step - 1)
  /\ kind = "Recording" /\ step > 8 => ~Clash("Recording", entry)

\* How a form that is complete was judged.
FormRuled ==
  /\ outcome.status \in {"rejected", "aborted"} =>
       outcome.errors = <<CrossFieldInconsistency>> /\ kind # "Recording" /\ Clash(kind, entry)
  /\ outcome.payload # None => outcome.payload = Some(entry) /\ ~Clash(kind, entry)

\* The inductive invariant: the answers so far pass, and the ruling is on them.
FormInv ==
  /\ session = "wizard" =>
       /\ FormFilled /\ FormRuled
       /\ outcome = [status |-> outcome.status, errors |-> outcome.errors,
                     payload |-> outcome.payload]
  /\ outcome.status \in {"valid", "rejected", "aborted"} => session = "wizard"

\* Genre and sub-genre are asked for once, in this order.
LEMMA GenreThenSubGenre ==
  /\ Len(RecordingPrompts) = 15
  /\ RecordingPrompts[7] = "genre" /\ RecordingPrompts[8] = "sub_genre"
  /\ \A i \in 9..15 : RecordingPrompts[i] \notin {"genre", "sub_genre"}
  BY DEF RecordingPrompts

LEMMA FreshForm ==
  ASSUME kind \in MiddsKinds, entry = <<>>, step = 1, outcome = Editing
  PROVE  /\ FormFilled /\ FormRuled /\ outcome.status = "editing"
         /\ outcome = [status |-> outcome.status, errors |-> outcome.errors,
                       payload |-> outcome.payload]
<1>1. Len(Prompts(kind)) \in Nat
  BY KindPrompted
<1>2. DOMAIN entry = {Prompts(kind)[i] : i \in 1..(step - 1)} /\ AnsweredUpTo(step - 1)
  BY DEF AnsweredUpTo
<1>3. FormFilled
  BY <1>1, <1>2 DEF FormFilled
<1> QED BY <1>3 DEF FormRuled, Editing

LEMMA InitForm == Init => FormInv
<1> SUFFICES ASSUME Init PROVE FormInv
  OBVIOUS
<1>1. step = 1 /\ outcome = Editing /\ (session = "wizard" => kind \in MiddsKinds /\ entry = <<>>)
  BY DEF Init, InitBuilder, InitWizard, InitLint, InitFixture
<1>2. outcome.status = "editing"
  BY <1>1 DEF Editing
<1> QED BY <1>1, <1>2, FreshForm DEF FormInv

LEMMA AnswerKeeps ==
  ASSUME TypedInAscii, FormInv, Answer
  PROVE  FormInv'
<1> DEFINE prompts == Prompts(kind)
           f == prompts[step]
<1>1. /\ session = "wizard" /\ outcome = Editing /\ step <= Len(prompts)
      /\ step' = step + 1 /\ UNCHANGED <<session, kind, focus, round, outcome>>
  BY DEF Answer
<1>2. /\ kind \in MiddsKinds /\ step \in 1..(Len(prompts) + 1) /\ AnsweredUpTo(step - 1)
      /\ DOMAIN entry = {prompts[i] : i \in 1..(step - 1)}
      /\ kind = "Recording" /\ step > 8 => ~Clash("Recording", entry)
  BY <1>1 DEF FormInv, FormFilled
<1>3. Len(prompts) \in Nat /\ \A i \in 1..Len(prompts) : prompts[i] \in PromptedFields(kind)
  BY <1>2, KindPrompted
<1>4. step \in 1..Len(prompts) /\ f \in PromptedFields(kind)
  BY <1>1, <1>2, <1>3
<1>5. PICK v : /\ v \in Answers(kind, f, entry) \/ v = SamplePayload(kind)[f]
               /\ entry' = [g \in DOMAIN entry \cup {f} |-> IF g = f THEN v ELSE entry[g]]
  BY DEF Answer
<1>6. FieldPasses(kind, f, v)
  BY <1>2, <1>4, <1>5, AnswersPass
<1>7. ASSUME NEW i \in 1..step
      PROVE  prompts[i] \in DOMAIN entry' /\ FieldPasses(kind, prompts[i], entry'[prompts[i]])
  <2>1. CASE prompts[i] = f
    <3>1. f \in DOMAIN entry' /\ entry'[f] = v
      BY <1>5
    <3> QED BY <1>6, <2>1, <3>1
  <2>2. CASE prompts[i] # f
    <3>1. i \in 1..(step - 1)
      BY <1>4, <2>2
    <3>2. prompts[i] \in DOMAIN entry /\ FieldPasses(kind, prompts[i], entry[prompts[i]])
      BY <1>2, <3>1 DEF AnsweredUpTo
    <3>3. prompts[i] \in DOMAIN entry' /\ entry'[prompts[i]] = entry[prompts[i]]
      BY <1>5, <2>2, <3>2
    <3> QED BY <3>2, <3>3
  <2> QED BY <2>1, <2>2
<1>8. AnsweredUpTo(step - 1)'
  <2>1. step' - 1 = step
    BY <1>1, <1>4
  <2> QED BY <1>1, <1>7, <2>1 DEF AnsweredUpTo
<1>9. step' \in 1..(Len(prompts) + 1)
  BY <1>1, <1>3, <1>4
<1>10. DOMAIN entry' = {prompts[i] : i \in 1..(step' - 1)}
  <2>1. 1..(step' - 1) = 1..(step - 1) \cup {step}
    BY <1>1, <1>4
  <2>2. DOMAIN entry' = DOMAIN entry \cup {f}
    BY <1>5
  <2> HIDE DEF prompts
  <2> QED BY <1>2, <2>1, <2>2
<1>11. ASSUME kind = "Recording", step' > 8 PROVE ~Clash("Recording", entry')
  <2>1. prompts = RecordingPrompts
    BY <1>11 DEF Prompts
  <2>2. CASE step = 8
    <3>1. f = "sub_genre" /\ "genre" \in DOMAIN entry
      BY <1>2, <2>1, <2>2, GenreThenSubGenre
    <3>2. v = None \/ entry["genre"] # None
      <4>1. CASE v = SamplePayload(kind)[f]
        BY <1>11, <3>1, <4>1 DEF SamplePayload, DefaultRecording
      <4>2. CASE v \in Answers(kind, f, entry)
        <5>1. v \in SubGenre(entry)
          BY <1>11, <3>1, <4>2 DEF Answers, RecordingAnswers
        <5> QED BY <5>1 DEF SubGenre
      <4> QED BY <1>5, <4>1, <4>2
    <3>3. entry'["sub_genre"] = v /\ entry'["genre"] = entry["genre"]
      BY <1>5, <3>1
    <3> QED BY <3>2, <3>3 DEF Clash
  <2>3. CASE step > 8
    <3>1. step \in 9..15 /\ 7 \in 1..(step - 1) /\ 8 \in 1..(step - 1)
      BY <1>4, <2>1, <2>3, GenreThenSubGenre
    <3>2. f \notin {"genre", "sub_genre"} /\ {"genre", "sub_genre"} \subseteq DOMAIN entry
      BY <1>2, <2>1, <3>1, GenreThenSubGenre
    <3>3. entry'["sub_genre"] = entry["sub_genre"] /\ entry'["genre"] = entry["genre"]
      BY <1>5, <3>2
    <3> QED BY <1>2, <1>11, <2>3, <3>3 DEF Clash
  <2> QED BY <1>1, <1>4, <1>11, <2>2, <2>3
<1>12. FormFilled'
  BY <1>1, <1>2, <1>8, <1>9, <1>10, <1>11 DEF FormFilled
<1>13. FormRuled'
  BY <1>1 DEF FormRuled, Editing
<1> QED BY <1>1, <1>12, <1>13 DEF FormInv, Editing

LEMMA SubmitKeeps ==
  ASSUME FormInv, Submit
  PROVE  FormInv'
<1> DEFINE prompts == Prompts(kind)
           ruling == ValidateFormat(kind, entry)
<1>1. /\ session = "wizard" /\ outcome = Editing /\ step > Len(prompts)
      /\ UNCHANGED <<session, kind, focus, entry, step, round>>
      /\ outcome' = IF ruling = Ok
                    THEN [status |-> "valid", errors |-> <<>>, payload |-> Some(entry)]
                    ELSE [status |-> "rejected", errors |-> <<ruling>>, payload |-> None]
  BY DEF Submit
<1>2. /\ kind \in MiddsKinds /\ step \in 1..(Len(prompts) + 1) /\ AnsweredUpTo(step - 1)
      /\ kind = "Recording" /\ step > 8 => ~Clash("Recording", entry)
  BY <1>1 DEF FormInv, FormFilled
<1>3. /\ Len(prompts) \in Nat
      /\ \A f \in PromptedFields(kind) : \E i \in 1..Len(prompts) : prompts[i] = f
  BY <1>2, KindPrompted
<1>4. FormPasses(kind, entry)
  <2> SUFFICES ASSUME NEW f \in PromptedFields(kind) PROVE FieldPasses(kind, f, entry[f])
    BY DEF FormPasses
  <2>1. PICK i \in 1..Len(prompts) : prompts[i] = f
    BY <1>3
  <2>2. i \in 1..(step - 1)
    BY <1>1, <1>2, <1>3
  <2> QED BY <1>2, <2>1, <2>2 DEF AnsweredUpTo
<1>5. ruling \in {Ok, CrossFieldInconsistency} /\ (ruling = Ok <=> ~Clash(kind, entry))
  BY <1>2, <1>4, FormJudged
<1>6. kind = "Recording" => ~Clash(kind, entry)
  <2>1. kind = "Recording" => Len(prompts) = 15
    BY GenreThenSubGenre DEF Prompts
  <2>2. kind = "Recording" => step > 8
    <3>1. step \in Nat /\ step > Len(prompts)
      BY <1>1, <1>2, <1>3
    <3> HIDE DEF prompts
    <3> QED BY <2>1, <3>1
  <2> QED BY <1>2, <2>2
<1> HIDE DEF ruling
<1>7. FormRuled'
  <2>1. CASE ruling = Ok
    BY <1>1, <1>5, <2>1 DEF FormRuled
  <2>2. CASE ruling # Ok
    BY <1>1, <1>5, <1>6, <2>2 DEF FormRuled
  <2> QED BY <2>1, <2>2
<1>8. FormFilled'
  BY <1>1 DEF FormInv, FormFilled, AnsweredUpTo
<1>9. outcome' = [status |-> outcome'.status, errors |-> outcome'.errors,
                  payload |-> outcome'.payload]
  BY <1>1
<1> QED BY <1>1, <1>7, <1>8, <1>9 DEF FormInv

LEMMA ReenterKeeps ==
  ASSUME FormInv, ReenterForm
  PROVE  FormInv'
<1>1. /\ outcome.status = "rejected" /\ step' = 1 /\ outcome' = Editing /\ entry' = <<>>
      /\ UNCHANGED <<session, kind, focus>>
  BY DEF ReenterForm
<1>2. session = "wizard" /\ kind \in MiddsKinds
  BY <1>1 DEF FormInv, FormFilled
<1>3. /\ FormFilled' /\ FormRuled' /\ outcome'.status = "editing"
      /\ outcome' = [status |-> outcome'.status, errors |-> outcome'.errors,
                     payload |-> outcome'.payload]
  <2>1. Len(Prompts(kind)) \in Nat
    BY <1>2, KindPrompted
  <2>2. DOMAIN entry' = {Prompts(kind)[i] : i \in 1..(step' - 1)} /\ AnsweredUpTo(step - 1)'
    BY <1>1 DEF AnsweredUpTo
  <2>3. FormFilled'
    BY <1>1, <1>2, <2>1, <2>2 DEF FormFilled
  <2> QED BY <1>1, <2>3 DEF FormRuled, Editing
<1> QED BY <1>1, <1>2, <1>3 DEF FormInv

\* A complete form that keeps its answers, its ruling and its payload.
LEMMA StatusKeeps ==
  ASSUME FormInv, session = "wizard", UNCHANGED <<session, kind, entry, step>>,
         NEW end \in {"aborted", "emitted", "write_failed"},
         outcome' = [outcome EXCEPT !.status = end],
         end = "aborted" => outcome.status = "rejected"
  PROVE  FormInv'
<1>1. outcome' = [status |-> end, errors |-> outcome.errors, payload |-> outcome.payload]
  BY DEF FormInv
<1>2. FormFilled'
  BY DEF FormInv, FormFilled, AnsweredUpTo
<1>3. FormRuled'
  BY <1>1 DEF FormInv, FormRuled
<1> QED BY <1>1, <1>2, <1>3 DEF FormInv

LEMMA NextForm ==
  ASSUME TypedInAscii PROVE DraftInv /\ FormInv /\ [Next]_vars => FormInv'
<1> SUFFICES ASSUME DraftInv, FormInv, [Next]_vars PROVE FormInv'
  OBVIOUS
<1>1. CASE Call
  <2>1. session = "builder" /\ UNCHANGED <<session, kind, step, outcome>>
    BY <1>1 DEF Call
  <2> QED BY <2>1 DEF FormInv
<1>2. CASE CallBuild
  <2>1. session = "builder" /\ UNCHANGED session /\ outcome' = Build(kind, entry)
    BY <1>2 DEF CallBuild
  <2>2. kind \in MiddsKinds /\ IsDraft(kind, entry)
    BY <2>1 DEF DraftInv
  <2>3. outcome'.status \in {"missing", "fields", "built"}
    BY <2>1, <2>2, BuildReports DEF Reports
  <2> QED BY <2>1, <2>3 DEF FormInv
<1>3. CASE Answer
  BY <1>3, AnswerKeeps
<1>4. CASE Submit
  BY <1>4, SubmitKeeps
<1>5. CASE ReenterForm
  BY <1>5, ReenterKeeps
<1>6. CASE Abort
  <2>1. /\ outcome.status = "rejected" /\ outcome' = [outcome EXCEPT !.status = "aborted"]
        /\ UNCHANGED <<session, kind, entry, step>> /\ session = "wizard"
    BY <1>6 DEF Abort, FormInv
  <2> QED BY <2>1, StatusKeeps
<1>7. CASE Finish
  <2>1. PICK end \in {"emitted", "write_failed"} : outcome' = [outcome EXCEPT !.status = end]
    BY <1>7 DEF Finish
  <2>2. UNCHANGED <<session, kind, entry, step>> /\ session = "wizard"
    BY <1>7 DEF Finish, FormInv
  <2> QED BY <2>1, <2>2, StatusKeeps
<1>8. CASE MistypeCharacter \/ DropCharacter
  <2>1. session = "lint" /\ UNCHANGED <<session, kind, outcome>>
    BY <1>8 DEF MistypeCharacter, DropCharacter
  <2> QED BY <2>1 DEF FormInv
<1>9. CASE Generate \/ Spoil
  <2>1. /\ session = "fixture" /\ UNCHANGED session
        /\ \E f : outcome' = Generated(f)
    BY <1>9 DEF Generate, Spoil
  <2>2. outcome'.status = "generated"
    BY <2>1 DEF Generated
  <2> QED BY <2>1, <2>2 DEF FormInv
<1>10. CASE UNCHANGED vars
  BY <1>10 DEF vars, FormInv, FormFilled, FormRuled, AnsweredUpTo
<1> QED BY <1>1, <1>2, <1>3, <1>4, <1>5, <1>6, <1>7, <1>8, <1>9, <1>10 DEF Next

\* The chain refuses a form exactly when two of its answers clash, and a
\* recording never: no prompt lets through an answer that is wrong by itself,
\* and no answer but those of the round is judged.  With identifiers in ASCII.
THEOREM FormsFailByClashes ==
  ASSUME TypedInAscii PROVE Spec => []FormRefusedForClashes
<1>1. FormInv => FormRefusedForClashes
  BY DEF FormInv, FormFilled, FormRuled, FormRefusedForClashes
<1>2. Init => FormInv
  BY InitForm
<1>3. DraftInv /\ FormInv /\ [Next]_vars => FormInv'
  BY NextForm
<1> QED BY <1>1, <1>2, <1>3, DraftsAlways, PTL DEF Spec
=============================================================================
