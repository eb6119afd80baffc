--------------------------- MODULE RecordBuilders ---------------------------
(***************************************************************************)
(* The parser-tolerant builders of midds-validate/src/builder.rs.  A draft *)
(* holds the inputs verbatim; build() parses and bounds every one of them, *)
(* collects a diagnostic for each that fails, and assembles the payload    *)
(* only if none did.  The three builders share their list, text and party  *)
(* helpers, as their bodies do.                                            *)
(*                                                                         *)
(* A raw text is its size and the size left after trimming.  A result is a *)
(* record of the diagnostics and, if there is one, the value.              *)
(***************************************************************************)
EXTENDS ClientInputs, TLC

-----------------------------------------------------------------------------
(* Drafts and the calls on them.                                           *)

Set(d, f, inputs) == {[d EXCEPT ![f] = Some(v)] : v \in inputs}

\* One entry past the cap is enough to overflow it.
Push(d, f, inputs) ==
  IF Len(d[f]) > ListMax THEN {} ELSE {[d EXCEPT ![f] = Append(@, v)] : v \in inputs}

WorkDraft ==
  [iswc |-> None, title |-> None, creation_year |-> None, instrumental |-> FALSE,
   explicit_lyrics |-> FALSE, bpm |-> None, work_type |-> None, samples |-> <<>>,
   creators |-> <<>>, offchain_extension |-> None]

WorkFilled ==
  [WorkDraft EXCEPT !.iswc = Some(SampleCode["iswc"]), !.title = Some(SampleText),
     !.creators = << [roles |-> {"Composer"}, ipi |-> Some(SampleCode["ipi"]), isni |-> None] >>]

WorkCalls(d, f) ==
  CASE f = "iswc" -> Set(d, f, RawCodes["iswc"])
    [] f = "title" -> Set(d, f, RawTexts)
    [] f = "creation_year" -> Set(d, f, Years)
    [] f = "bpm" -> Set(d, f, Bpms)
    [] f \in {"instrumental", "explicit_lyrics"} -> {[d EXCEPT ![f] = v] : v \in BOOLEAN}
    [] f = "work_type" -> Set(d, f, WorkTypes)
    [] f = "samples" -> Push(d, f, References("iswc"))
    [] f = "creators" -> Push(d, f, CreatorInputs)
    [] f = "offchain_extension" -> Set(d, f, HashSizes)

RecordingDraft ==
  [isrc |-> None, title |-> None, title_aliases |-> <<>>, artist |-> None, featuring |-> <<>>,
   work |-> None, genre |-> None, sub_genre |-> None, record_year |-> None,
   performers |-> <<>>, producers |-> <<>>, bpm |-> None, places |-> None,
   contributors |-> <<>>, offchain_extension |-> None]

SampleParty == [kind |-> "ipi", raw |-> SampleCode["ipi"]]

RecordingFilled ==
  [RecordingDraft EXCEPT !.isrc = Some(SampleCode["isrc"]), !.title = Some(SampleText),
     !.artist = Some(SampleParty), !.work = Some(ByCode(SampleCode["iswc"]))]

\* performer_instruments: the last performer added, if there is one.
PerformerInstruments(d) ==
  IF d.performers = <<>> THEN {d}
  ELSE {[d EXCEPT !.performers[Len(d.performers)].instruments = list] :
          list \in {<<"Vocals">>, [i \in 1..(ListMax + 1) |-> "Vocals"]}}

RecordingCalls(d, f) ==
  CASE f = "isrc" -> Set(d, f, RawCodes["isrc"])
    [] f = "title" -> Set(d, f, RawTexts)
    [] f = "title_aliases" -> Push(d, f, RawTexts)
    [] f = "artist" -> Set(d, f, PartyInputs)
    [] f \in {"featuring", "contributors"} -> Push(d, f, PartyInputs)
    [] f = "work" -> Set(d, f, References("iswc"))
    [] f \in {"genre", "sub_genre"} -> {[d EXCEPT ![f] = v] : v \in Options(Genres)}
    [] f = "record_year" -> Set(d, f, Years)
    [] f = "performers" -> Push(d, f, PerformerInputs) \cup PerformerInstruments(d)
    [] f = "producers" -> Push(d, f, RawCodes["isni"])
    [] f = "bpm" -> Set(d, f, Bpms)
    [] f = "places" -> Set(d, f, PlacesInputs)
    [] f = "offchain_extension" -> Set(d, f, HashSizes)

\* status, country, release_type, format and packaging are one field here.
ReleaseDraft ==
  [upc |-> None, title |-> None, title_aliases |-> <<>>, artist |-> None, featuring |-> <<>>,
   tracks |-> <<>>, producers |-> <<>>, editorial |-> None, release_date |-> None,
   distributor_name |-> None, cover_contributors |-> <<>>, offchain_extension |-> None]

ReleaseFilled ==
  [ReleaseDraft EXCEPT !.upc = Some(SampleCode["upc"]), !.title = Some(SampleText),
     !.artist = Some(SampleParty), !.editorial = Some(TRUE),
     !.release_date = Some([month |-> 1, day |-> 1]), !.distributor_name = Some(SampleText),
     !.tracks = << [number |-> None, recording |-> ByCode(SampleCode["isrc"])] >>]

ReleaseCalls(d, f) ==
  CASE f = "upc" -> Set(d, f, RawCodes["upc"])
    [] f \in {"title", "distributor_name"} -> Set(d, f, RawTexts)
    [] f \in {"title_aliases", "cover_contributors"} -> Push(d, f, RawTexts)
    [] f = "artist" -> Set(d, f, PartyInputs)
    [] f = "featuring" -> Push(d, f, PartyInputs)
    [] f = "tracks" -> Push(d, f, TrackInputs)
    [] f = "producers" -> Push(d, f, ProducerInputs)
    [] f = "editorial" -> Set(d, f, {TRUE})
    [] f = "release_date" -> Set(d, f, Dates)
    [] f = "offchain_extension" -> Set(d, f, HashSizes)

-----------------------------------------------------------------------------
(* Helpers of build().                                                     *)

\* A diagnostic names its field and the entry of the list it is about (0: all of it).
Good(v) == [errs |-> <<>>, val |-> Some(v)]
Bad(field, entry) == [errs |-> << [field |-> field, entry |-> entry] >>, val |-> None]

\* Mutant of BuildText: the trimmed text is not measured.
BuildTextUnbounded(field, entry, raw) ==
  IF raw.trimmed # 0 THEN Good(raw.trimmed) ELSE Bad(field, entry)

BuildText(field, entry, raw) ==
  IF raw.trimmed \in 1..TextMax THEN Good(raw.trimmed) ELSE Bad(field, entry)

BuildCode(field, entry, kind, raw) ==
  LET parsed == Parsed[kind][raw]
  IN  IF parsed = None THEN Bad(field, entry) ELSE Good(parsed[1])

\* All of the inputs of an entry fail or succeed on their own; the value needs them all.
Both(a, b, value) ==
  [errs |-> a.errs \o b.errs, val |-> IF a.val = None \/ b.val = None THEN None ELSE Some(value)]

BuildOffchain(raw) ==
  IF raw = None THEN Good(None)
  ELSE IF raw[1] \in 1..TextMax THEN Good(raw) ELSE Bad("offchain_extension", 0)

Errors(results) == FlattenSeq([i \in DOMAIN results |-> results[i].errs])
Kept(results) == FlattenSeq([i \in DOMAIN results |-> results[i].val])

\* Mutant of Collected: the cap counts what was passed.
CollectedCountingInputs(field, results) ==
  IF Len(results) > ListMax
  THEN [errs |-> Errors(results) \o Bad(field, 0).errs, val |-> None]
  ELSE [errs |-> Errors(results), val |-> Some(Kept(results))]

\* The cap counts the entries that came through.
Collected(field, results) ==
  IF Len(Kept(results)) > ListMax
  THEN [errs |-> Errors(results) \o Bad(field, 0).errs, val |-> None]
  ELSE [errs |-> Errors(results), val |-> Some(Kept(results))]

\* Every entry is tried.
BuildList(field, raws, One(_, _)) == Collected(field, [i \in DOMAIN raws |-> One(raws[i], i)])

PartyOf(kind, code) == IF kind = "ipi" THEN Party(Some(code), None) ELSE Party(None, Some(code))

ParseParty(field, entry, input) ==
  LET code == BuildCode(field, entry, input.kind, input.raw)
  IN  IF code.val = None THEN code ELSE Good(PartyOf(input.kind, code.val[1]))

ParsePartyList(field, raws) == BuildList(field, raws, LAMBDA raw, i : ParseParty(field, i, raw))

\* An identifier that fails hides the instruments of that entry.
ParsePerformer(input, i) ==
  LET code == BuildCode("performers", i, input.kind, input.raw)
  IN  IF code.val = None THEN code
      ELSE IF Len(input.instruments) > ListMax THEN Bad("performers", i)
      ELSE Good([kind |-> input.kind, code |-> code.val[1], instruments |-> input.instruments])

BuildReference(field, entry, kind, ref) ==
  IF ref.code = None THEN Good(ref)
  ELSE LET code == BuildCode(field, entry, kind, ref.code[1])
       IN  IF code.val = None THEN code ELSE Good(ByCode(code.val[1]))

BuildTextList(field, raws) == BuildList(field, raws, LAMBDA raw, i : BuildText(field, i, raw))

\* No errors: the payload, which needs a value of every part (the expect()s).
Conclude(order, parts, typed) ==
  LET errs == FlattenSeq([i \in DOMAIN order |-> parts[order[i]].errs])
  IN  IF errs # <<>> THEN [status |-> "fields", errors |-> errs, payload |-> None]
      ELSE IF \E f \in DOMAIN parts : parts[f].val = None
      THEN [status |-> "panic", errors |-> <<>>, payload |-> None]
      ELSE [status |-> "built", errors |-> <<>>,
            payload |-> Some([f \in DOMAIN parts \cup DOMAIN typed |->
                                IF f \in DOMAIN parts THEN parts[f].val[1] ELSE typed[f]])]

Missing(d, mandatory) == \E i \in DOMAIN mandatory : d[mandatory[i]] = <<>>
ReportMissing(d, mandatory) ==
  LET unset == SelectSeq(mandatory, LAMBDA f : d[f] = <<>>)
  IN  [status |-> "missing", errors |-> Bad(Head(unset), 0).errs, payload |-> None]

-----------------------------------------------------------------------------
(* build().                                                                *)

BuildOptional(field, i, kind, raw) ==
  IF raw = None THEN Good(None)
  ELSE LET code == BuildCode(field, i, kind, raw[1])
       IN  IF code.val = None THEN code ELSE Good(Some(code.val[1]))

\* Every supplied identifier is tried and so are the roles.  Past the bound the
\* code names a creator creators[overflow] (builder.rs:33-38), which is one name
\* for one entry here too, since a list reaches one past its bound.
BuildCreator(input, i) ==
  LET ipi == BuildOptional("creators", i, "ipi", input.ipi)
      isni == BuildOptional("creators", i, "isni", input.isni)
      unnamed == input.ipi = None /\ input.isni = None
      faults == (IF input.roles = {} THEN Bad("creators", i).errs ELSE <<>>)
                \o (IF unnamed THEN Bad("creators", i).errs ELSE <<>>)
  IN  [errs |-> ipi.errs \o isni.errs \o faults,
       val |-> IF ipi.val = None \/ isni.val = None \/ faults # <<>> THEN None
               ELSE Some([roles |-> input.roles, party |-> Party(ipi.val[1], isni.val[1])])]

WorkMandatory == <<"iswc", "title", "creators">>

BuildWork(d) ==
  IF Missing(d, WorkMandatory) THEN ReportMissing(d, WorkMandatory)
  ELSE Conclude(
    <<"iswc", "title", "creators", "samples", "offchain_extension">>,
    [iswc |-> BuildCode("iswc", 0, "iswc", d.iswc[1]),
     title |-> BuildText("title", 0, d.title[1]),
     creators |-> BuildList("creators", d.creators, BuildCreator),
     samples |-> BuildList("samples", d.samples,
                           LAMBDA ref, i : BuildReference("samples", i, "iswc", ref)),
     offchain_extension |-> BuildOffchain(d.offchain_extension)],
    [creation_year |-> d.creation_year, bpm |-> d.bpm, instrumental |-> d.instrumental,
     explicit_lyrics |-> d.explicit_lyrics, classical_info |-> None,
     work_type |-> IF d.work_type = None THEN Original ELSE d.work_type[1]])

BuildPlaces(raw) ==
  IF raw = None THEN Good(None)
  ELSE LET place(slot) == IF slot = None THEN Good(None)
                          ELSE LET text == BuildText("places", 0, slot[1])
                               IN  IF text.val = None THEN text ELSE Good(text.val)
           p == [slot \in {"recording", "mixing", "mastering"} |-> place(raw[1][slot])]
           errs == p["recording"].errs \o p["mixing"].errs \o p["mastering"].errs
       IN  IF errs # <<>> THEN [errs |-> errs, val |-> None]
           ELSE Good(Some([slot \in DOMAIN p |-> p[slot].val[1]]))

RecordingMandatory == <<"isrc", "title", "artist", "work">>

BuildRecording(d) ==
  IF Missing(d, RecordingMandatory) THEN ReportMissing(d, RecordingMandatory)
  ELSE Conclude(
    <<"isrc", "title", "title_aliases", "artist", "work", "performers", "producers",
      "contributors", "featuring", "places", "offchain_extension">>,
    [isrc |-> BuildCode("isrc", 0, "isrc", d.isrc[1]),
     title |-> BuildText("title", 0, d.title[1]),
     title_aliases |-> BuildTextList("title_aliases", d.title_aliases),
     artist |-> ParseParty("artist", 0, d.artist[1]),
     work |-> BuildReference("work", 0, "iswc", d.work[1]),
     performers |-> BuildList("performers", d.performers, ParsePerformer),
     producers |-> BuildList("producers", d.producers,
                             LAMBDA raw, i : BuildCode("producers", i, "isni", raw)),
     contributors |-> ParsePartyList("contributors", d.contributors),
     featuring |-> ParsePartyList("featuring", d.featuring),
     places |-> BuildPlaces(d.places),
     offchain_extension |-> BuildOffchain(d.offchain_extension)],
    [genre |-> d.genre, sub_genre |-> d.sub_genre, record_year |-> d.record_year, bpm |-> d.bpm])

\* Mutant of BuildTracks: places are counted from zero.
BuildTracksFromZero(raws) ==
  LET ref(i) == BuildReference("tracks", i, "isrc", raws[i].recording)
      track(raw, i) ==
        IF ref(i).val = None THEN ref(i)
        ELSE Good([number |-> IF raw.number = None THEN i - 1 ELSE raw.number[1],
                   recording |-> ref(i).val[1]])
  IN  BuildList("tracks", raws, track)

\* A track without a number takes its place among the tracks that came through.
BuildTracks(raws) ==
  LET ref(i) == BuildReference("tracks", i, "isrc", raws[i].recording)
      place(i) == Cardinality({j \in 1..i : ref(j).val # None})
      track(raw, i) ==
        IF ref(i).val = None THEN ref(i)
        ELSE Good([number |-> IF raw.number = None THEN place(i) ELSE raw.number[1],
                   recording |-> ref(i).val[1]])
  IN  BuildList("tracks", raws, track)

BuildProducer(raw, i) ==
  LET isni == BuildCode("producers", i, "isni", raw.isni)
      catalog == BuildText("producers", i, raw.catalog)
  IN  Both(isni, catalog, IF isni.val = None \/ catalog.val = None THEN None
                          ELSE [isni |-> isni.val[1], catalog_number |-> catalog.val[1]])

\* Mutant of ReleaseMandatory: a release without tracks is not refused.
ReleaseMandatoryButTracks ==
  <<"upc", "title", "artist", "editorial", "release_date", "distributor_name">>

ReleaseMandatory ==
  <<"upc", "title", "artist", "editorial", "release_date", "distributor_name", "tracks">>

BuildRelease(d) ==
  IF Missing(d, ReleaseMandatory) THEN ReportMissing(d, ReleaseMandatory)
  ELSE Conclude(
    <<"upc", "title", "title_aliases", "artist", "featuring", "tracks", "producers",
      "distributor_name", "cover_contributors", "offchain_extension">>,
    [upc |-> BuildCode("upc", 0, "upc", d.upc[1]),
     title |-> BuildText("title", 0, d.title[1]),
     title_aliases |-> BuildTextList("title_aliases", d.title_aliases),
     artist |-> ParseParty("artist", 0, d.artist[1]),
     featuring |-> ParsePartyList("featuring", d.featuring),
     tracks |-> BuildTracks(d.tracks),
     producers |-> BuildList("producers", d.producers, BuildProducer),
     distributor_name |-> BuildText("distributor_name", 0, d.distributor_name[1]),
     cover_contributors |-> BuildTextList("cover_contributors", d.cover_contributors),
     offchain_extension |-> BuildOffchain(d.offchain_extension)],
    [release_date |-> d.release_date[1]])

-----------------------------------------------------------------------------
Filled(kind) ==
  CASE kind = "MusicalWork" -> WorkFilled [] kind = "Recording" -> RecordingFilled
    [] kind = "Release" -> ReleaseFilled

Empty(kind) ==
  CASE kind = "MusicalWork" -> WorkDraft [] kind = "Recording" -> RecordingDraft
    [] kind = "Release" -> ReleaseDraft

Calls(kind, d, f) ==
  CASE kind = "MusicalWork" -> WorkCalls(d, f) [] kind = "Recording" -> RecordingCalls(d, f)
    [] kind = "Release" -> ReleaseCalls(d, f)

Build(kind, d) ==
  CASE kind = "MusicalWork" -> BuildWork(d) [] kind = "Recording" -> BuildRecording(d)
    [] kind = "Release" -> BuildRelease(d)
=============================================================================
