---------------------------- MODULE CreateWizard ----------------------------
(***************************************************************************)
(* The offline form `midds create` (midds-cli/src/create): for each kind   *)
(* of record the prompts in their order, and for each prompt the answers   *)
(* its widget lets through.  A widget asks again until the answer is       *)
(* acceptable, so a refused answer is not a step.  A form maps the fields  *)
(* answered so far to their values; once complete it is the payload.       *)
(***************************************************************************)
EXTENDS ClientInputs

-----------------------------------------------------------------------------
(* prompts.rs: the values a widget can return.                             *)

\* Blank answers are refused, but what is kept is not trimmed.
BoundedString == {t.size : t \in {u \in RawTexts : u.trimmed > 0 /\ u.size <= TextMax}}

Identifier(kind) == {p[1] : p \in Range(Parsed[kind]) \ {None}}

IntInRange(numbers, range) == numbers \cap range

Optional(answers) == Options(answers)

Collect(answers, min) == {list \in SeqOf(answers, ListMax) : Len(list) >= min}

MultiSelect(choices) == (SUBSET choices) \ {{}}

-----------------------------------------------------------------------------
(* shared.rs: composite answers.                                           *)

PartyId ==
  {Party(Some(c), None) : c \in Identifier("ipi")}
    \cup {Party(None, Some(c)) : c \in Identifier("isni")}
    \cup {Party(Some(c), Some(d)) : c \in Identifier("ipi"), d \in Identifier("isni")}

PerformerId ==
  UNION {{[kind |-> k, code |-> c] : c \in Identifier(k)} : k \in PerformerKinds}

RefTo(kind) == {ByMidds(id) : id \in MiddsIds} \cup {ByCode(c) : c \in Identifier(kind)}

OffchainExtension == Optional({t.trimmed : t \in RawTexts} \cap 1..TextMax)

ReleaseDate == [month : {d.month : d \in Dates} \cap 1..12, day : {d.day : d \in Dates} \cap 1..31]

-----------------------------------------------------------------------------
(* musical_work.rs.                                                        *)

WorkPrompts ==
  <<"iswc", "title", "creation_year", "instrumental", "explicit_lyrics", "bpm", "work_type",
    "samples", "creators", "classical_info", "offchain_extension">>

BuildWorkType ==
  {Original}
    \cup {WorkType(form, s) : form \in Collages, s \in Collect(Identifier("iswc"), 2)}
    \cup {WorkType(form, <<c>>) : form \in Derivatives, c \in Identifier("iswc")}

BuildCreators ==
  Collect([roles : MultiSelect({"Author", "Composer"}), party : PartyId], 1)

BuildClassicalInfo ==
  Optional([opus : Optional(BoundedString), catalog_number : {None},
            number_of_voices : Optional(IntInRange({0, 1}, Nat \ {0}))])

WorkAnswers(f, form) ==
  CASE f = "iswc" -> Identifier("iswc")
    [] f = "title" -> BoundedString
    [] f = "creation_year" -> Optional(IntInRange(Years, YearRange))
    [] f = "instrumental" -> BOOLEAN
    [] f = "explicit_lyrics" -> IF form["instrumental"] THEN {FALSE} ELSE BOOLEAN
    [] f = "bpm" -> Optional(IntInRange(Bpms, BpmRange))
    [] f = "work_type" -> BuildWorkType
    [] f = "samples" -> Collect(RefTo("iswc"), 0)
    [] f = "creators" -> BuildCreators
    [] f = "classical_info" -> BuildClassicalInfo
    [] f = "offchain_extension" -> OffchainExtension

-----------------------------------------------------------------------------
(* recording.rs.                                                           *)

RecordingPrompts ==
  <<"isrc", "title", "title_aliases", "artist", "featuring", "work", "genre", "sub_genre",
    "record_year", "performers", "producers", "bpm", "places", "contributors",
    "offchain_extension">>

BuildPerformers ==
  Collect({[kind |-> p.kind, code |-> p.code, instruments |-> list] :
             p \in PerformerId, list \in Collect(Instruments, 0)}, 0)

AskPlaces ==
  Optional([recording : Optional(BoundedString), mixing : {None},
            mastering : Optional(BoundedString)])

\* Mutant of SubGenre: offered whatever was answered before.
SubGenreAlways(form) == Optional(Genres)

\* A sub-genre is offered only once a genre is set.
SubGenre(form) == IF form["genre"] = None THEN {None} ELSE Optional(Genres)

RecordingAnswers(f, form) ==
  CASE f = "isrc" -> Identifier("isrc")
    [] f = "title" -> BoundedString
    [] f = "title_aliases" -> Collect(BoundedString, 0)
    [] f = "artist" -> PartyId
    [] f \in {"featuring", "contributors"} -> Collect(PartyId, 0)
    [] f = "work" -> RefTo("iswc")
    [] f = "genre" -> Optional(Genres)
    [] f = "sub_genre" -> SubGenre(form)
    [] f = "record_year" -> Optional(IntInRange(Years, YearRange))
    [] f = "performers" -> BuildPerformers
    [] f = "producers" -> Collect(Identifier("isni"), 0)
    [] f = "bpm" -> Optional(IntInRange(Bpms, BpmRange))
    [] f = "places" -> AskPlaces
    [] f = "offchain_extension" -> OffchainExtension

-----------------------------------------------------------------------------
(* release.rs.                                                             *)

ReleasePrompts ==
  <<"upc", "title", "title_aliases", "artist", "featuring", "tracks", "producers",
    "release_date", "distributor_name", "cover_contributors", "offchain_extension">>

\* Neither the numbers nor the recordings are compared while typing.
AskTracks ==
  Collect([number : IntInRange(TrackNumbers, 1..ListMax), recording : RefTo("isrc")], 1)

AskProducers == Collect([isni : Identifier("isni"), catalog_number : BoundedString], 0)

ReleaseAnswers(f, form) ==
  CASE f = "upc" -> Identifier("upc")
    [] f \in {"title", "distributor_name"} -> BoundedString
    [] f \in {"title_aliases", "cover_contributors"} -> Collect(BoundedString, 0)
    [] f = "artist" -> PartyId
    [] f = "featuring" -> Collect(PartyId, 0)
    [] f = "tracks" -> AskTracks
    [] f = "producers" -> AskProducers
    [] f = "release_date" -> ReleaseDate
    [] f = "offchain_extension" -> OffchainExtension

-----------------------------------------------------------------------------
Prompts(kind) ==
  CASE kind = "MusicalWork" -> WorkPrompts [] kind = "Recording" -> RecordingPrompts
    [] kind = "Release" -> ReleasePrompts

Answers(kind, f, form) ==
  CASE kind = "MusicalWork" -> WorkAnswers(f, form)
    [] kind = "Recording" -> RecordingAnswers(f, form)
    [] kind = "Release" -> ReleaseAnswers(f, form)
=============================================================================
