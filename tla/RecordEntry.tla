---------------------------- MODULE RecordEntry ----------------------------
(***************************************************************************)
(* Where payloads come from, in one of four sessions: a program calling a  *)
(* builder (RecordBuilders), a user filling in the form of `midds create`  *)
(* (CreateWizard, create/mod.rs), a user typing a single identifier that   *)
(* is then linted (Identifiers), and a test or a bench generating records  *)
(* (Fixtures, FixtureStrategies).                                          *)
(*                                                                         *)
(* A session exercises the fields in `focus` in full; the others hold the  *)
(* sample record's values.  `round` counts how often the form was started. *)
(***************************************************************************)
EXTENDS RecordBuilders, CreateWizard, FixtureStrategies

CONSTANTS
  Focuses,     \* the sets of fields a session exercises together
  Typos,       \* characters a slip of the keyboard puts in
  MaxRounds    \* how often the form is started, for the model

ASSUME EntryAssumption ==
  MaxRounds \in Nat \ {0} /\ Typos \subseteq Characters

VARIABLES session, kind, focus, entry, step, round, outcome

vars == <<session, kind, focus, entry, step, round, outcome>>

Editing == [status |-> "editing", errors |-> <<>>, payload |-> None]

\* The test builders' record.
SamplePayload(k) ==
  CASE k = "MusicalWork" -> DefaultWork [] k = "Recording" -> DefaultRecording
    [] k = "Release" -> DefaultRelease

FieldsOf(s, k) == IF s = "builder" THEN DOMAIN Empty(k) ELSE Range(Prompts(k))

InitBuilder ==
  /\ session = "builder" /\ kind \in MiddsKinds
  /\ focus \in Focuses \cap SUBSET FieldsOf("builder", kind)
  /\ entry = [f \in DOMAIN Empty(kind) |-> IF f \in focus THEN Empty(kind)[f] ELSE Filled(kind)[f]]

InitWizard ==
  /\ session = "wizard" /\ kind \in MiddsKinds
  /\ focus \in Focuses \cap SUBSET FieldsOf("wizard", kind)
  /\ entry = <<>>

InitLint ==
  /\ session = "lint" /\ kind \in IdKinds /\ focus = {}
  /\ \E raw \in RawCodes[kind] : entry = [base |-> raw, text |-> raw]

InitFixture ==
  /\ session = "fixture" /\ kind \in MiddsKinds
  /\ focus \in Focuses \cap SUBSET DOMAIN MinSize(kind)
  /\ entry = None

Init ==
  /\ InitBuilder \/ InitWizard \/ InitLint \/ InitFixture
  /\ step = 1 /\ round = 1 /\ outcome = Editing

-----------------------------------------------------------------------------
(* The builder.                                                            *)

Call ==
  /\ session = "builder" /\ outcome = Editing
  /\ \E f \in focus : entry' \in Calls(kind, entry, f)
  /\ UNCHANGED <<session, kind, focus, step, round, outcome>>

\* build(self) consumes the builder.
CallBuild ==
  /\ session = "builder" /\ outcome = Editing
  /\ outcome' = Build(kind, entry)
  /\ UNCHANGED <<session, kind, focus, entry, step, round>>

-----------------------------------------------------------------------------
(* The form.                                                               *)

Answer ==
  /\ session = "wizard" /\ outcome = Editing /\ step <= Len(Prompts(kind))
  /\ LET f == Prompts(kind)[step]
     IN  \E v \in IF f \in focus THEN Answers(kind, f, entry) ELSE {SamplePayload(kind)[f]} :
           entry' = [g \in DOMAIN entry \cup {f} |-> IF g = f THEN v ELSE entry[g]]
  /\ step' = step + 1
  /\ UNCHANGED <<session, kind, focus, round, outcome>>

\* build_validated: the complete form is validated at once.
Submit ==
  /\ session = "wizard" /\ outcome = Editing /\ step > Len(Prompts(kind))
  /\ outcome' = LET ruling == ValidateFormat(kind, entry)
                IN  IF ruling = Ok
                    THEN [status |-> "valid", errors |-> <<>>, payload |-> Some(entry)]
                    ELSE [status |-> "rejected", errors |-> <<ruling>>, payload |-> None]
  /\ UNCHANGED <<session, kind, focus, entry, step, round>>

\* The whole form again, from nothing.
ReenterForm ==
  /\ outcome.status = "rejected" /\ round < MaxRounds
  /\ entry' = <<>> /\ step' = 1 /\ round' = round + 1 /\ outcome' = Editing
  /\ UNCHANGED <<session, kind, focus>>

Abort ==
  /\ outcome.status = "rejected"
  /\ outcome' = [outcome EXCEPT !.status = "aborted"]
  /\ UNCHANGED <<session, kind, focus, entry, step, round>>

\* finish: to standard output, or to a file, which may fail.
Finish ==
  /\ outcome.status = "valid"
  /\ \E end \in {"emitted", "write_failed"} : outcome' = [outcome EXCEPT !.status = end]
  /\ UNCHANGED <<session, kind, focus, entry, step, round>>

-----------------------------------------------------------------------------
(* The single identifier.                                                  *)

MistypeCharacter ==
  /\ session = "lint" /\ step = 1
  /\ \E i \in DOMAIN entry.text, c \in Typos : entry' = [entry EXCEPT !.text[i] = c]
  /\ step' = 2
  /\ UNCHANGED <<session, kind, focus, round, outcome>>

DropCharacter ==
  /\ session = "lint" /\ step = 1
  /\ \E i \in DOMAIN entry.text : entry' = [entry EXCEPT !.text = RemoveAt(@, i)]
  /\ step' = 2
  /\ UNCHANGED <<session, kind, focus, round, outcome>>

-----------------------------------------------------------------------------
(* The generators; `entry` is the record's place in its batch.             *)

Generated(fixture) ==
  [status |-> "generated", payload |-> Some(fixture.payload),
   errors |-> IF fixture.expected = Ok THEN <<>> ELSE <<fixture.expected>>]

Generate ==
  /\ session = "fixture" /\ outcome = Editing
  /\ \E f \in Batch(kind, focus) \cup Arbitrary(kind, focus) \cup ArbitraryMax(kind) \cup Invalid(kind) :
       outcome' = Generated(f) /\ entry' = f.index
  /\ UNCHANGED <<session, kind, focus, step, round>>

\* arb_*_invalid takes a valid record and breaks one thing in it.
Spoil ==
  /\ session = "fixture" /\ outcome = Editing
  /\ \E v \in Arbitrary(kind, focus) : \E f \in Spoilt(kind, v.payload) : outcome' = Generated(f)
  /\ UNCHANGED <<session, kind, focus, entry, step, round>>

-----------------------------------------------------------------------------
Next ==
  \/ Call \/ CallBuild
  \/ Answer \/ Submit \/ ReenterForm \/ Abort \/ Finish
  \/ MistypeCharacter \/ DropCharacter
  \/ Generate \/ Spoil

Spec == Init /\ [][Next]_vars

-----------------------------------------------------------------------------
(* Properties.                                                             *)

Built == session = "builder" /\ outcome.status = "built"

\* Type invariant: whatever a builder or the form hands over is a value of
\* the payload's types, within every bound of the chain's collections.
TypeOK ==
  /\ session \in {"builder", "wizard", "lint", "fixture"}
  /\ step \in Nat /\ round \in 1..MaxRounds
  /\ outcome.status \in {"editing", "missing", "fields", "built", "valid", "rejected",
                         "aborted", "emitted", "write_failed", "generated"}
  /\ outcome.payload # None => IsPayload(kind, outcome.payload[1])

\* The entries of a draft that are at fault when each is judged alone, by the
\* parsers and the bounds: what the diagnostics of build() must name.
FaultyCode(k, raw) == Parsed[k][raw] = None
FaultyText(t) == t.trimmed = 0 \/ t.trimmed > TextMax
FaultyReference(k, ref) == ref.code # None /\ FaultyCode(k, ref.code[1])
FaultyCreator(c) ==
  \/ c.roles = {} \/ (c.ipi = None /\ c.isni = None)
  \/ c.ipi # None /\ FaultyCode("ipi", c.ipi[1])
  \/ c.isni # None /\ FaultyCode("isni", c.isni[1])
FaultyParty(p) == FaultyCode(p.kind, p.raw)

FaultyValue(k, f, v) ==
  CASE f \in IdKinds -> FaultyCode(f, v)
    [] f \in {"title", "title_aliases", "distributor_name", "cover_contributors"} -> FaultyText(v)
    [] f \in {"artist", "featuring", "contributors"} -> FaultyParty(v)
    [] f = "performers" -> FaultyParty(v) \/ Len(v.instruments) > ListMax
    [] f \in {"work", "samples"} -> FaultyReference("iswc", v)
    [] f = "tracks" -> FaultyReference("isrc", v.recording)
    [] f = "creators" -> FaultyCreator(v)
    [] f = "producers" /\ k = "Recording" -> FaultyCode("isni", v)
    [] f = "producers" /\ k = "Release" -> FaultyCode("isni", v.isni) \/ FaultyText(v.catalog)
    [] f = "places" -> \E slot \in DOMAIN v : v[slot] # None /\ FaultyText(v[slot][1])
    [] f = "offchain_extension" -> v \notin 1..TextMax
    [] OTHER -> FALSE

Lists == {"title_aliases", "featuring", "performers", "producers", "contributors", "samples",
          "creators", "tracks", "cover_contributors"}
Flags == {"instrumental", "explicit_lyrics"}

Faults(k, d) ==
  LET at(f, i) == [field |-> f, entry |-> IF f \in Lists THEN i ELSE 0]
      faulty(f) == {i \in DOMAIN d[f] : FaultyValue(k, f, d[f][i])}
      overfull == {f \in DOMAIN d \cap Lists : Len(d[f]) - Cardinality(faulty(f)) > ListMax}
  IN  (UNION {{at(f, i) : i \in faulty(f)} : f \in DOMAIN d \ Flags})
        \cup {[field |-> f, entry |-> 0] : f \in overfull}

\* build() refuses a draft exactly when something in it is at fault, and then
\* names every entry at fault and no other: "A user supplying three bad inputs
\* gets all three diagnostics, not just the first" (builder.rs:41-45).
EveryFaultReported ==
  session = "builder" /\ outcome.status \in {"built", "fields", "panic"} =>
    Range(outcome.errors) = Faults(kind, entry)

\* A draft that builds loses none of its entries and changes none of their
\* places: every list of the payload has one entry for each call, a track
\* keeps the number it was given, and instruments stay with their performer.
BuiltKeepsEveryEntry ==
  Built =>
    LET p == outcome.payload[1]
    IN  /\ \A f \in DOMAIN p \cap Lists : Len(p[f]) = Len(entry[f])
        /\ kind = "Release" => \A i \in DOMAIN p.tracks :
             p.tracks[i].number = IF entry.tracks[i].number = None THEN i ELSE entry.tracks[i].number[1]
        /\ kind = "Recording" => \A i \in DOMAIN p.performers :
             p.performers[i].instruments = entry.performers[i].instruments

\* Two answers that may not go together: a work citing one work twice or
\* itself, a sub-genre without a genre, two tracks of one number or recording.
Clash(k, p) ==
  CASE k = "MusicalWork" ->
         \/ ~IsInjective(p.work_type.sources) \/ p.iswc \in Range(p.work_type.sources)
         \/ ~IsInjective(p.samples) \/ ByCode(p.iswc) \in Range(p.samples)
    [] k = "Recording" -> p.sub_genre # None /\ p.genre = None
    [] k = "Release" ->
         \E i, j \in DOMAIN p.tracks : i # j /\ \/ p.tracks[i].number = p.tracks[j].number
                                                \/ p.tracks[i].recording = p.tracks[j].recording

\* What build() leaves to the chain: the ranges of typed numbers, the codes of
\* a work type, which comes in typed, and the rules between fields.  Everything
\* else a built payload has passed: no other code, no text and no mandatory
\* field of it is refused by validate_format.
UncheckedByBuild(k, p) ==
  \/ Clash(k, p)
  \/ CASE k = "MusicalWork" ->
            \/ \E y \in Range(p.creation_year) : y \notin YearRange
            \/ \E b \in Range(p.bpm) : b \notin BpmRange
            \/ \E code \in Range(p.work_type.sources) : ValidateIswc(code) # Ok
            \/ p.work_type.form \in Collages /\ Len(p.work_type.sources) < 2
       [] k = "Recording" ->
            \/ \E y \in Range(p.record_year) : y \notin YearRange
            \/ \E b \in Range(p.bpm) : b \notin BpmRange
       [] k = "Release" ->
            \/ \E t \in Range(p.tracks) : t.number = 0
            \/ p.release_date.month \notin 1..12 \/ p.release_date.day \notin 1..31

BuiltIsStorable ==
  Built => LET p == outcome.payload[1]
           IN  ValidateFormat(kind, p) = Ok <=> ~UncheckedByBuild(kind, p)

\* A form is judged by the answers of its own round, all of them and no other,
\* and the chain refuses it exactly when two of them clash; the prompts of a
\* recording let no clash through.  "A failure here is almost always a
\* cross-field rule (medley < 2 sources, duplicate tracklist entry)"
\* (create/mod.rs:60-61): with identifiers in ASCII it always is, and it is
\* never the first of the two examples, which is no cross-field rule but
\* OutOfBounds.  The prompts ask for two sources, a creator, a track and
\* numbers in their ranges, so OutOfBounds and EmptyMandatoryField, for which
\* `explain` has a hint (mod.rs:89-92), do not come out of a form.  Its hint
\* for CrossFieldInconsistency (86-88) names one of the clashes only.
FormRefusedForClashes ==
  session = "wizard" =>
    /\ DOMAIN entry = {Prompts(kind)[i] : i \in 1..(step - 1)}
    /\ outcome.status \in {"rejected", "aborted"} =>
         outcome.errors = <<CrossFieldInconsistency>> /\ kind # "Recording" /\ Clash(kind, entry)
    /\ outcome.payload # None => outcome.payload = Some(entry) /\ ~Clash(kind, entry)

\* A generated record is judged as it was made to be, from whatever valid
\* record it was spoilt (strategy.rs:459-461), and a record of a batch carries
\* an identifier that no other place of the batch is given ("guaranteed unique
\* within the batch", midds-fixtures lib.rs:104): a bench would otherwise
\* measure rejections and duplicates.
FixturesAsIntended ==
  outcome.status = "generated" =>
    LET p == outcome.payload[1]
        ruling == ValidateFormat(kind, p)
    IN  /\ outcome.errors = IF ruling = Ok THEN <<>> ELSE <<ruling>>
        /\ entry # None => \A i \in FixtureIndices \ {entry[1]} :
             p[IdField(kind)] # IdForIndex(kind, i)

\* The parsers "emit the strict canonical form that validate_*_format expects
\* on-chain" (parse.rs:3-6): what one returns is valid, and parses to itself.
ParsedIsCanonical ==
  session = "lint" =>
    LET parsed == Parse(kind, entry.text)
    IN  parsed # None => Validate(kind, parsed[1]) = Ok /\ Parse(kind, parsed[1]) = parsed

\* One wrong character in a good ISNI or UPC never passes its check digit: the
\* weights of both (powers of two modulo 11, 1 and 3 modulo 10) have inverses.
SlipsAreCaught ==
  session = "lint" /\ kind \in {"isni", "upc"} =>
    LET good == Parse(kind, entry.base)
        typed == Parse(kind, entry.text)
    IN  good # None /\ typed # None /\ typed # good /\ Len(typed[1]) = Len(good[1])
          /\ Verify(kind, good[1]) = "Pass" => Verify(kind, typed[1]) = "Fail"
=============================================================================
