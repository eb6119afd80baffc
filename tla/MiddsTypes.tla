----------------------------- MODULE MiddsTypes -----------------------------
(***************************************************************************)
(* The three kinds of record and validate_format, the rule set the chain   *)
(* applies to them (midds-types/src/{musical_work,recording,release}/v1.rs *)
(* and shared.rs).                                                         *)
(*                                                                         *)
(* A stored text is its size in bytes, an identifier a sequence of         *)
(* characters (module Identifiers), a collection a sequence.  Fields that  *)
(* no rule reads (language, key, territory, the closed enumerations but    *)
(* for their presence) are left out or cut down to two values.             *)
(***************************************************************************)
EXTENDS Identifiers

CONSTANTS
  TextMax,   \* the byte bound of a text (TITLE_MAX_LEN, PLACE_MAX_LEN, ...)
  ListMax    \* the bound of a collection (CREATORS_MAX, TRACKS_MAX, ...)

ASSUME TypesAssumption == TextMax \in Nat \ {0} /\ ListMax \in Nat \ {0}

YearRange == 1..2999
BpmRange == 20..300

Codes == Seq(Characters)
Options(S) == {None} \cup {Some(v) : v \in S}
IsOption(o, S) == o = None \/ (Len(o) = 1 /\ o[1] \in S)
IsList(l, S) == l \in Seq(S) /\ Len(l) <= ListMax

\* The first of a sequence of results that is not Ok.
FirstError(results) ==
  LET bad == {i \in DOMAIN results : results[i] # Ok}
  IN  IF bad = {} THEN Ok ELSE results[Min(bad)]

Each(Rule(_), list) == [i \in DOMAIN list |-> Rule(list[i])]

NonEmpty(text) == IF text = 0 THEN EmptyMandatoryField ELSE Ok
InRange(number, range) == IF number \in range THEN Ok ELSE OutOfBounds
Unless(broken, error) == IF broken THEN error ELSE Ok
OfOption(Rule(_), o) == FirstError(Each(Rule, o))

-----------------------------------------------------------------------------
(* Shared parts.                                                           *)

\* PartyId: an IPI, an ISNI, or both.
Party(ipi, isni) == [ipi |-> ipi, isni |-> isni]
ValidateParty(p) ==
  FirstError(<< OfOption(ValidateIpi, p.ipi), OfOption(ValidateIsni, p.isni) >>)

\* PerformerId: an IPN, an IPI or an ISNI.
PerformerKinds == {"ipn", "ipi", "isni"}
ValidatePerformerId(p) == Validate(p.kind, p.code)

\* WorkRef and RecordingRef: an on-chain id, or an external code.
ByMidds(id) == [midds |-> Some(id), code |-> None]
ByCode(code) == [midds |-> None, code |-> Some(code)]
ValidateWorkRef(r) == OfOption(ValidateIswc, r.code)
ValidateRecordingRef(r) == OfOption(ValidateIsrc, r.code)

ValidateOffchain(o) == OfOption(NonEmpty, o)

\* Two entries of a list that must not be the same: the second one is refused.
Repeated(list, i) == \E j \in 1..(i - 1) : list[j] = list[i]

-----------------------------------------------------------------------------
(* MusicalWork.                                                            *)

Roles == {"Author", "Composer", "Arranger", "Adapter", "Publisher"}

\* The forms of a work and how many source works each carries.
Collages == {"Medley", "Mashup"}
Derivatives == {"Adaptation", "Rearrangement"}
WorkType(form, sources) == [form |-> form, sources |-> sources]
Original == WorkType("Original", <<>>)

IsMusicalWork(w) ==
  /\ w.iswc \in Codes /\ w.title \in 0..TextMax
  /\ IsOption(w.creation_year, Nat) /\ IsOption(w.bpm, Nat)
  /\ {w.instrumental, w.explicit_lyrics} \subseteq BOOLEAN
  /\ w.work_type.form \in {"Original"} \cup Collages \cup Derivatives
  /\ Len(w.samples) <= ListMax /\ Len(w.creators) <= ListMax
  /\ \A i \in DOMAIN w.creators : w.creators[i].roles \subseteq Roles

ValidateCreator(c) ==
  FirstError(<< Unless(c.roles = {}, EmptyMandatoryField), ValidateParty(c.party) >>)

\* Each reference well formed first, then none repeated and none to itself.
ValidateWorkType(w) ==
  LET sources == w.work_type.sources
  IN  IF w.work_type.form \in Collages
      THEN FirstError(
             << Unless(Len(sources) < 2, OutOfBounds) >> \o Each(ValidateIswc, sources)
             \o [i \in DOMAIN sources |->
                  Unless(sources[i] = w.iswc \/ Repeated(sources, i), CrossFieldInconsistency)])
      ELSE FirstError(Each(ValidateIswc, sources)
             \o Each(LAMBDA s : Unless(s = w.iswc, CrossFieldInconsistency), sources))

ValidateSample(w, i) ==
  FirstError(<< ValidateWorkRef(w.samples[i]),
                Unless(w.samples[i] = ByCode(w.iswc), CrossFieldInconsistency),
                Unless(Repeated(w.samples, i), CrossFieldInconsistency) >>)

ValidateClassical(c) ==
  FirstError(<< OfOption(NonEmpty, c.opus), OfOption(NonEmpty, c.catalog_number),
                OfOption(LAMBDA n : Unless(n = 0, OutOfBounds), c.number_of_voices) >>)

ValidateWork(w) ==
  FirstError(
    << ValidateIswc(w.iswc),
       NonEmpty(w.title),
       OfOption(LAMBDA y : InRange(y, YearRange), w.creation_year),
       OfOption(LAMBDA b : InRange(b, BpmRange), w.bpm),
       Unless(w.creators = <<>>, EmptyMandatoryField) >>
    \o Each(ValidateCreator, w.creators)
    \o << ValidateWorkType(w) >>
    \o [i \in DOMAIN w.samples |-> ValidateSample(w, i)]
    \o << OfOption(ValidateClassical, w.classical_info),
          ValidateOffchain(w.offchain_extension) >>)

-----------------------------------------------------------------------------
(* Recording.                                                              *)

\* One value stands for each closed enumeration: no rule tells its values apart.
Genres == {"Pop"}
Instruments == {"Vocals"}

IsRecording(r) ==
  /\ r.isrc \in Codes /\ r.title \in 0..TextMax
  /\ IsList(r.title_aliases, 0..TextMax)
  /\ IsOption(r.genre, Genres) /\ IsOption(r.sub_genre, Genres)
  /\ IsOption(r.record_year, Nat) /\ IsOption(r.bpm, Nat)
  /\ \A list \in {r.featuring, r.performers, r.producers, r.contributors} : Len(list) <= ListMax
  /\ \A i \in DOMAIN r.performers :
       /\ r.performers[i].kind \in PerformerKinds
       /\ IsList(r.performers[i].instruments, Instruments)

ValidatePlaces(p) ==
  FirstError(<< OfOption(NonEmpty, p.recording), OfOption(NonEmpty, p.mixing),
                OfOption(NonEmpty, p.mastering) >>)

ValidateRecording(r) ==
  FirstError(
    << ValidateIsrc(r.isrc), NonEmpty(r.title) >>
    \o Each(NonEmpty, r.title_aliases)
    \o << OfOption(LAMBDA y : InRange(y, YearRange), r.record_year),
          OfOption(LAMBDA b : InRange(b, BpmRange), r.bpm),
          Unless(r.sub_genre # None /\ r.genre = None, CrossFieldInconsistency),
          ValidateParty(r.artist) >>
    \o Each(ValidateParty, r.featuring)
    \o << ValidateWorkRef(r.work) >>
    \o Each(ValidatePerformerId, r.performers)
    \o Each(ValidateIsni, r.producers)
    \o Each(ValidateParty, r.contributors)
    \o << OfOption(ValidatePlaces, r.places), ValidateOffchain(r.offchain_extension) >>)

-----------------------------------------------------------------------------
(* Release.                                                                *)

IsRelease(r) ==
  /\ r.upc \in Codes /\ {r.title, r.distributor_name} \subseteq 0..TextMax
  /\ IsList(r.title_aliases, 0..TextMax) /\ IsList(r.cover_contributors, 0..TextMax)
  /\ \A list \in {r.featuring, r.tracks, r.producers} : Len(list) <= ListMax
  /\ \A i \in DOMAIN r.tracks : r.tracks[i].number \in Nat
  /\ {r.release_date.month, r.release_date.day} \subseteq Nat

\* A track's own rules, then its recording and its number against the earlier ones.
ValidateTrack(tracks, i) ==
  LET earlier == 1..(i - 1)
  IN  FirstError(
        << Unless(tracks[i].number = 0, OutOfBounds),
           ValidateRecordingRef(tracks[i].recording),
           Unless(\E j \in earlier : tracks[j].recording = tracks[i].recording,
                  CrossFieldInconsistency),
           Unless(\E j \in earlier : tracks[j].number = tracks[i].number,
                  CrossFieldInconsistency) >>)

ValidateProducer(p) == FirstError(<< ValidateIsni(p.isni), NonEmpty(p.catalog_number) >>)

ValidateDate(d) == Unless(d.month \notin 1..12 \/ d.day \notin 1..31, OutOfBounds)

ValidateRelease(r) ==
  FirstError(
    << ValidateUpc(r.upc), NonEmpty(r.title) >>
    \o Each(NonEmpty, r.title_aliases)
    \o << ValidateParty(r.artist) >>
    \o Each(ValidateParty, r.featuring)
    \o << Unless(r.tracks = <<>>, EmptyMandatoryField) >>
    \o [i \in DOMAIN r.tracks |-> ValidateTrack(r.tracks, i)]
    \o Each(ValidateProducer, r.producers)
    \o << ValidateDate(r.release_date), NonEmpty(r.distributor_name) >>
    \o Each(NonEmpty, r.cover_contributors)
    \o << ValidateOffchain(r.offchain_extension) >>)

-----------------------------------------------------------------------------
MiddsKinds == {"MusicalWork", "Recording", "Release"}

ValidateFormat(kind, payload) ==
  CASE kind = "MusicalWork" -> ValidateWork(payload)
    [] kind = "Recording" -> ValidateRecording(payload)
    [] kind = "Release" -> ValidateRelease(payload)

IsPayload(kind, payload) ==
  CASE kind = "MusicalWork" -> IsMusicalWork(payload)
    [] kind = "Recording" -> IsRecording(payload)
    [] kind = "Release" -> IsRelease(payload)
=============================================================================
