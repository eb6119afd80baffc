------------------------- MODULE FixtureStrategies -------------------------
(***************************************************************************)
(* The proptest strategies of midds-fixtures                               *)
(* ({musical_work,recording,release}/strategy.rs): the records they call   *)
(* valid, the ones at every bound, and the ones spoilt in one way, with    *)
(* the error the spoiling is meant to cause (and those of pathological.rs, *)
(* which spoil the smallest record).  A weight is left out, a range is its *)
(* two ends, and a list without repetition comes in any order.             *)
(***************************************************************************)
EXTENDS Fixtures

ArbIswc == {IswcFromWorkCode(c) : c \in WorkCodes}
ArbIsrc == {IsrcForIndex(c) : c \in WorkCodes}
ArbUpc == {Decimals(c, size) : c \in WorkCodes, size \in {12, 13}}
ArbTitle == Texts
ArbOffchainHash == Options(Texts)

ArbPartyId == RandomPartyId \cup BothIds
ArbWorkRef == {ByMidds(7)} \cup {ByCode(c) : c \in ArbIswc}
ArbRecordingRef == {ByMidds(7)} \cup {ByCode(c) : c \in ArbIsrc}

Distinct(entries, shortest) == {l \in ListsOf(entries, shortest) : IsInjective(l)}

-----------------------------------------------------------------------------
(* MusicalWork.                                                            *)

ArbWorkType ==
  {Original}
    \cup {WorkType(form, l) : form \in Collages, l \in Distinct(ArbIswc, 2)}
    \cup {WorkType(form, <<c>>) : form \in Derivatives, c \in ArbIswc}

ArbSamples == Distinct(ArbWorkRef, 0)

ArbCreators == ListsOf([roles : (SUBSET {"Author", "Composer"}) \ {{}}, party : ArbPartyId], 1)

ArbClassicalInfo ==
  [opus : Options(Texts), catalog_number : Options(Texts), number_of_voices : Options({1, 65535})]

\* work_type_references_iswc, samples_reference_iswc.
SelfReferencing(w) == w.iswc \in Range(w.work_type.sources) \/ ByCode(w.iswc) \in Range(w.samples)

ArbWork(focus) ==
  LET draws(f) ==
        CASE f = "iswc" -> ArbIswc
          [] f = "title" -> ArbTitle
          [] f = "creation_year" -> Options({1, 2999})
          [] f \in {"instrumental", "explicit_lyrics"} -> BOOLEAN
          [] f = "bpm" -> Options({40, 240})
          [] f = "work_type" -> ArbWorkType
          [] f = "samples" -> ArbSamples
          [] f = "creators" -> ArbCreators
          [] f = "classical_info" -> Options(ArbClassicalInfo)
          [] f = "offchain_extension" -> ArbOffchainHash
  IN  {w \in Vary(DefaultWork, focus, draws) : ~SelfReferencing(w)}

\* As large as MaxWork, with drawn codes instead of the first ones.
ArbMaxWork ==
  LET drawn == [MaxWork EXCEPT !.work_type = WorkType("Medley", <<>>), !.samples = <<>>]
      full(entries) == {l \in Distinct(entries, ListMax) : Len(l) = ListMax}
      draws(f) == CASE f = "iswc" -> ArbIswc
                    [] f = "work_type" -> {WorkType("Medley", l) : l \in full(ArbIswc)}
                    [] f = "samples" -> full({ByCode(c) : c \in ArbIswc})
  IN  {w \in Vary(drawn, {"iswc", "work_type", "samples"}, draws) : ~SelfReferencing(w)}

\* arb_musical_work_invalid.
SpoiltWorks(w) ==
  {Fixture([w EXCEPT !.iswc[6] = 10], InvalidCharset, None),
   Fixture([w EXCEPT !.iswc[1] = LetterX], InvalidStructure, None),
   Fixture([w EXCEPT !.title = 0], EmptyMandatoryField, None),
   Fixture([w EXCEPT !.creators = <<>>], EmptyMandatoryField, None),
   Fixture([w EXCEPT !.work_type = WorkType("Medley", <<>>)], OutOfBounds, None),
   Fixture([w EXCEPT !.offchain_extension = Some(0)], EmptyMandatoryField, None)}

\* invalid_*: the smallest work, spoilt in the first five ways.
InvalidWorks == {f \in SpoiltWorks(MinWork) : f.payload.offchain_extension = None}

-----------------------------------------------------------------------------
(* Recording.                                                              *)

ArbPlaces ==
  [recording : Options(Texts), mixing : Options(Texts), mastering : Options(Texts)]

ArbRecording(focus) ==
  LET draws(f) ==
        CASE f = "isrc" -> ArbIsrc
          [] f = "title" -> ArbTitle
          [] f = "title_aliases" -> ListsOf(ArbTitle, 0)
          [] f = "artist" -> ArbPartyId
          [] f \in {"featuring", "contributors"} -> ListsOf(ArbPartyId, 0)
          [] f = "work" -> ArbWorkRef
          [] f \in {"genre", "sub_genre"} -> Options(Genres)
          [] f = "record_year" -> Options({1900, 2025})
          [] f = "performers" -> RandomPerformers
          [] f = "producers" -> ListsOf(RandomIsni, 0)
          [] f = "bpm" -> Options({40, 240})
          [] f = "places" -> Options(ArbPlaces)
          [] f = "offchain_extension" -> ArbOffchainHash
  IN  WithGenreFirst(Vary(DefaultRecording, focus, draws))

ArbMaxRecording ==
  {[MaxRecording EXCEPT !.isrc = c, !.work = ByCode(d)] : c \in ArbIsrc, d \in ArbIswc}

\* "X1234567890"
BadWorkCode == << LetterX, 1, 2, 3, 4, 5, 6, 7, 8, 9, 0 >>

\* arb_recording_invalid.
SpoiltRecordings(r) ==
  {Fixture([r EXCEPT !.isrc[1] = 41], InvalidCharset, None),
   Fixture([r EXCEPT !.isrc = Front(@)], OutOfBounds, None),
   Fixture([r EXCEPT !.title = 0], EmptyMandatoryField, None),
   Fixture([r EXCEPT !.title_aliases = <<0>>], EmptyMandatoryField, None),
   Fixture([r EXCEPT !.work = ByCode(BadWorkCode)], InvalidStructure, None),
   Fixture([r EXCEPT !.offchain_extension = Some(0)], EmptyMandatoryField, None)}

\* invalid_recording_*.
InvalidRecordings ==
  {f \in SpoiltRecordings(MinRecording) :
     f.payload.title_aliases = <<>> /\ f.payload.offchain_extension = None}

-----------------------------------------------------------------------------
(* Release.                                                                *)

\* Recordings already on the list are dropped, the others numbered.
ArbTracks == {Numbered(l) : l \in Distinct(ArbRecordingRef, 1)}

ArbRelease(focus) ==
  LET draws(f) ==
        CASE f = "upc" -> ArbUpc
          [] f \in {"title", "distributor_name"} -> ArbTitle
          [] f \in {"title_aliases", "cover_contributors"} -> ListsOf(ArbTitle, 0)
          [] f = "artist" -> ArbPartyId
          [] f = "featuring" -> ListsOf(ArbPartyId, 0)
          [] f = "tracks" -> ArbTracks
          [] f = "producers" -> ListsOf([isni : RandomIsni, catalog_number : Texts], 0)
          [] f = "release_date" -> [month : {1, 12}, day : {1, 31}]
          [] f = "offchain_extension" -> ArbOffchainHash
  IN  Vary(DefaultRelease, focus, draws)

ArbMaxRelease == {[MaxRelease EXCEPT !.upc = c] : c \in {d \in ArbUpc : Len(d) = 13}}

Track(number, recording) == [number |-> number, recording |-> recording]

\* arb_release_invalid.
SpoiltReleases(r) ==
  {Fixture([r EXCEPT !.upc = << 1, 2, 3, 4, 5, 6, 7, 8 >>], OutOfBounds, None),
   Fixture([r EXCEPT !.upc = << 4, 0, 0, 6, 3, 8, 1, 3, 3, 3, 9, LetterX, 1 >>], InvalidCharset, None),
   Fixture([r EXCEPT !.title = 0], EmptyMandatoryField, None),
   Fixture([r EXCEPT !.tracks = <<>>], EmptyMandatoryField, None),
   Fixture([r EXCEPT !.release_date = [month |-> 0, day |-> 1]], OutOfBounds, None),
   Fixture([r EXCEPT !.distributor_name = 0], EmptyMandatoryField, None),
   Fixture([r EXCEPT !.tracks = << Track(1, @[1].recording), Track(2, @[1].recording) >>],
           CrossFieldInconsistency, None),
   Fixture([r EXCEPT !.tracks = << Track(7, ByMidds(1)), Track(7, ByMidds(2)) >>],
           CrossFieldInconsistency, None),
   Fixture([r EXCEPT !.tracks = << Track(0, @[1].recording) >>], OutOfBounds, None)}

\* invalid_release_*.
InvalidReleases ==
  LET r == MinRelease
  IN  {Fixture([r EXCEPT !.upc[12] = LetterX], InvalidCharset, None),
       Fixture([r EXCEPT !.upc = Decimals(0, 7)], OutOfBounds, None),
       Fixture([r EXCEPT !.title = 0], EmptyMandatoryField, None),
       Fixture([r EXCEPT !.tracks = <<>>], EmptyMandatoryField, None),
       Fixture([r EXCEPT !.release_date = [month |-> 13, day |-> 1]], OutOfBounds, None),
       Fixture([r EXCEPT !.tracks[1].number = 0], OutOfBounds, None),
       Fixture([r EXCEPT !.tracks = << Track(1, ByMidds(0)), Track(1, ByMidds(1)) >>],
               CrossFieldInconsistency, None)}

-----------------------------------------------------------------------------
Arbitrary(kind, focus) ==
  Valid(CASE kind = "MusicalWork" -> ArbWork(focus) [] kind = "Recording" -> ArbRecording(focus)
          [] kind = "Release" -> ArbRelease(focus))

ArbitraryMax(kind) ==
  Valid(CASE kind = "MusicalWork" -> ArbMaxWork [] kind = "Recording" -> ArbMaxRecording
          [] kind = "Release" -> ArbMaxRelease)

Invalid(kind) ==
  CASE kind = "MusicalWork" -> InvalidWorks [] kind = "Recording" -> InvalidRecordings
    [] kind = "Release" -> InvalidReleases

Spoilt(kind, payload) ==
  CASE kind = "MusicalWork" -> SpoiltWorks(payload) [] kind = "Recording" -> SpoiltRecordings(payload)
    [] kind = "Release" -> SpoiltReleases(payload)
=============================================================================
