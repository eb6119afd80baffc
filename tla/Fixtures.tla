------------------------------ MODULE Fixtures ------------------------------
(***************************************************************************)
(* The records that tests and benches are fed with                         *)
(* (midds-fixtures/src): identifiers made from a number, the smallest and  *)
(* the largest record of each kind, the pseudo-random ones, the ones that  *)
(* proptest's strategies generate, and the ones spoilt on purpose, each    *)
(* with the error it is made for.                                          *)
(*                                                                         *)
(* A random choice is any choice.  Fields outside `focus` keep what the    *)
(* test builder puts there; a text of some length is one byte or TextMax.  *)
(***************************************************************************)
EXTENDS MiddsTypes

CONSTANTS
  FixtureIndices,  \* the sequence numbers of a batch
  WorkCodes,       \* the numbers ISWCs, ISRCs and UPCs are drawn from
  Stems            \* the numbers IPIs, IPNs and ISNIs are drawn from

ASSUME FixturesAssumption ==
  /\ FixtureIndices \subseteq Nat /\ WorkCodes \subseteq 0..999999999 /\ Stems \subseteq Nat

\* Each record made, what validate_format is expected to say of it, and its
\* place in a batch, if it has one.
Fixture(payload, expected, index) == [payload |-> payload, expected |-> expected, index |-> index]
Valid(payloads) == {Fixture(p, Ok, None) : p \in payloads}

-----------------------------------------------------------------------------
(* identifiers.rs.                                                         *)

\* The last `size` decimals of a number below 10^10.
Decimals(n, size) ==
  [i \in 1..size |-> IF size - i > 9 THEN 0 ELSE (n \div 10^(size - i)) % 10]

\* Weights 1, 2, 3, ... from the left.
CisacCheck(digits) == Complement10(SumFunction([i \in DOMAIN digits |-> digits[i] * i]))

IswcFromWorkCode(code) ==
  LET digits == Decimals(code % 1000000000, 9)
  IN  << LetterT >> \o digits \o << CisacCheck(digits) >>

\* The check digit overwrites the last digit of the stem.
IpiFromStem(stem, size) ==
  LET digits == Front(Decimals(stem, size)) IN Append(digits, CisacCheck(digits))

IpnFromStem(stem) == Decimals(stem, 11)

IsniFromBody(digits) ==
  Append(digits, IF IsniCheck(digits) = 10 THEN LetterX ELSE IsniCheck(digits))

\* Mutant of IsrcForIndex: the registrant stays the same.
IsrcOfOneRegistrant(index) ==
  << 30, 28, 27, 12, 0 >> \o Decimals((index \div 1000000) % 100, 2) \o Decimals(index % 100000, 5)

\* "USRC", then the registrant's digit, the year and the designation.
IsrcForIndex(index) ==
  << 30, 28, 27, 12, (index \div 100000) % 10 >>
    \o Decimals((index \div 1000000) % 100, 2) \o Decimals(index % 100000, 5)

\* Weights 1, 3, 1, 3, ... from the left of twelve digits.
GtinCheckDigit(digits) ==
  Complement10(SumFunction([i \in DOMAIN digits |-> digits[i] * (IF i % 2 = 1 THEN 1 ELSE 3)]))

UpcForIndex(index) ==
  LET digits == Decimals(index, 12) IN Append(digits, GtinCheckDigit(digits))

\* The field of a record's canonical identifier, and the one for an index.
IdField(kind) ==
  CASE kind = "MusicalWork" -> "iswc" [] kind = "Recording" -> "isrc" [] kind = "Release" -> "upc"

IdForIndex(kind, index) ==
  CASE kind = "MusicalWork" -> IswcFromWorkCode(index)
    [] kind = "Recording" -> IsrcForIndex(index)
    [] kind = "Release" -> UpcForIndex(index)

-----------------------------------------------------------------------------
(* pathological.rs: the smallest and the largest record.                   *)

\* Places count from 0.
Full(entry(_)) == [i \in 1..ListMax |-> entry(i - 1)]

\* The IPI's stem, a large multiple of i, is i here.
IsniAt(i) == IsniFromBody([j \in 1..15 |-> (i + j) % 10])
PartyBothAt(i) == Party(Some(IpiFromStem(i, 11)), Some(IsniAt(i)))
SoleParty == Party(Some(IpiFromStem(0, 9)), None)

MinWork ==
  [iswc |-> IswcFromWorkCode(0), title |-> 1, creation_year |-> None, instrumental |-> TRUE,
   explicit_lyrics |-> FALSE, bpm |-> None, work_type |-> Original, samples |-> <<>>,
   creators |-> << [roles |-> {"Composer"}, party |-> SoleParty] >>,
   classical_info |-> None, offchain_extension |-> None]

\* Its sources and samples are the works of the codes after its own.
MaxWork ==
  [iswc |-> IswcFromWorkCode(0), title |-> TextMax, creation_year |-> Some(2999),
   instrumental |-> FALSE, explicit_lyrics |-> TRUE, bpm |-> Some(300),
   work_type |-> WorkType("Medley", Full(LAMBDA i : IswcFromWorkCode(i + 1))),
   samples |-> Full(LAMBDA i : ByCode(IswcFromWorkCode(i + 1))),
   creators |-> Full(LAMBDA i : [roles |-> Roles, party |-> PartyBothAt(i)]),
   classical_info |-> Some([opus |-> Some(TextMax), catalog_number |-> Some(TextMax),
                            number_of_voices |-> Some(65535)]),
   offchain_extension |-> Some(TextMax)]

MinRecording ==
  [isrc |-> IsrcForIndex(0), title |-> 1, title_aliases |-> <<>>, artist |-> SoleParty,
   featuring |-> <<>>, work |-> ByMidds(0), genre |-> None, sub_genre |-> None,
   record_year |-> None, performers |-> <<>>, producers |-> <<>>, bpm |-> None,
   places |-> None, contributors |-> <<>>, offchain_extension |-> None]

MaxRecording ==
  [isrc |-> IsrcForIndex(0), title |-> TextMax, title_aliases |-> Full(LAMBDA i : TextMax),
   artist |-> PartyBothAt(99), featuring |-> Full(PartyBothAt),
   work |-> ByCode(IswcFromWorkCode(1)), genre |-> Some("Pop"), sub_genre |-> Some("Pop"),
   record_year |-> Some(2999),
   performers |-> Full(LAMBDA i : [kind |-> "isni", code |-> IsniAt(i),
                                   instruments |-> Full(LAMBDA j : "Vocals")]),
   producers |-> Full(IsniAt), bpm |-> Some(300),
   places |-> Some([recording |-> Some(TextMax), mixing |-> Some(TextMax),
                    mastering |-> Some(TextMax)]),
   contributors |-> Full(PartyBothAt), offchain_extension |-> Some(TextMax)]

MinRelease ==
  [upc |-> Decimals(0, 12), title |-> 1, title_aliases |-> <<>>, artist |-> SoleParty,
   featuring |-> <<>>, tracks |-> << [number |-> 1, recording |-> ByMidds(0)] >>,
   producers |-> <<>>, release_date |-> [month |-> 1, day |-> 1], distributor_name |-> 1,
   cover_contributors |-> <<>>, offchain_extension |-> None]

MaxRelease ==
  [upc |-> UpcForIndex(0), title |-> TextMax, title_aliases |-> Full(LAMBDA i : TextMax),
   artist |-> PartyBothAt(99), featuring |-> Full(PartyBothAt),
   tracks |-> Full(LAMBDA i : [number |-> i + 1, recording |-> ByCode(IsrcForIndex(i))]),
   producers |-> Full(LAMBDA i : [isni |-> IsniAt(i), catalog_number |-> TextMax]),
   release_date |-> [month |-> 12, day |-> 31], distributor_name |-> TextMax,
   cover_contributors |-> Full(LAMBDA i : TextMax), offchain_extension |-> Some(TextMax)]

MinSize(kind) ==
  CASE kind = "MusicalWork" -> MinWork [] kind = "Recording" -> MinRecording
    [] kind = "Release" -> MinRelease

MaxSize(kind) ==
  CASE kind = "MusicalWork" -> MaxWork [] kind = "Recording" -> MaxRecording
    [] kind = "Release" -> MaxRelease

\* Every way to draw the fields in focus for a record.
Vary(record, focus, draws(_)) ==
  FoldSet(LAMBDA f, made : UNION {{[p EXCEPT ![f] = v] : v \in draws(f)} : p \in made},
          {record}, focus)

Texts == {1, TextMax}
ListsOf(entries, shortest) == {l \in SeqOf(entries, ListMax) : Len(l) >= shortest}

-----------------------------------------------------------------------------
(* The records of a batch: {musical_work,recording,release}/mod.rs and the *)
(* payloads of `bench fees`.                                               *)

RandomIpi == {IpiFromStem(d, size) : d \in Stems, size \in 9..11}
RandomIsni == {IsniFromBody(Decimals(d, 15)) : d \in Stems}
RandomPartyId ==
  {Party(Some(c), None) : c \in RandomIpi} \cup {Party(None, Some(c)) : c \in RandomIsni}
BothIds == {Party(Some(c), Some(d)) : c \in RandomIpi, d \in RandomIsni}

DefaultParty == Party(Some(IpiFromStem(123456789, 9)), None)

DefaultWork ==
  [iswc |-> IswcFromWorkCode(0), title |-> 1, creation_year |-> Some(2024),
   instrumental |-> FALSE, explicit_lyrics |-> FALSE, bpm |-> None, work_type |-> Original,
   samples |-> <<>>, creators |-> << [roles |-> {"Composer"}, party |-> DefaultParty] >>,
   classical_info |-> None, offchain_extension |-> None]

RandomWork(focus) ==
  LET draws(f) ==
        CASE f = "title" -> Texts
          [] f = "creation_year" -> {Some(1900), Some(2025)}
          [] f = "bpm" -> {Some(40), Some(240)}
          [] f = "creators" -> ListsOf([roles : (SUBSET {"Author", "Composer"}) \ {{}},
                                        party : RandomPartyId \cup BothIds], 1)
          [] OTHER -> {DefaultWork[f]}
  IN  Vary(DefaultWork, focus, draws)

DefaultRecording ==
  [isrc |-> IsrcForIndex(0), title |-> 1, title_aliases |-> <<>>, artist |-> DefaultParty,
   featuring |-> <<>>, work |-> ByCode(IswcFromWorkCode(0)), genre |-> None, sub_genre |-> None,
   record_year |-> None, performers |-> <<>>, producers |-> <<>>, bpm |-> None,
   places |-> None, contributors |-> <<>>, offchain_extension |-> None]

RandomPerformerId ==
  {[kind |-> "ipn", code |-> IpnFromStem(d)] : d \in Stems}
    \cup {[kind |-> "ipi", code |-> c] : c \in RandomIpi}
    \cup {[kind |-> "isni", code |-> c] : c \in RandomIsni}

RandomPerformers ==
  ListsOf({[kind |-> p.kind, code |-> p.code, instruments |-> l] :
             p \in RandomPerformerId, l \in ListsOf(Instruments, 0)}, 0)

WithGenreFirst(records) == {r \in records : r.sub_genre # None => r.genre # None}

RandomRecording(focus) ==
  LET draws(f) ==
        CASE f = "title" -> Texts
          [] f = "artist" -> RandomPartyId
          [] f = "work" -> {ByCode(IswcFromWorkCode(c)) : c \in WorkCodes} \cup {ByMidds(0)}
          [] f \in {"genre", "sub_genre"} -> Options(Genres)
          [] f \in {"featuring", "contributors"} -> ListsOf(RandomPartyId, 0)
          [] f = "performers" -> RandomPerformers
          [] f = "producers" -> ListsOf(RandomIsni, 0)
          [] f = "record_year" -> {Some(1900), Some(2025)}
          [] f = "bpm" -> {Some(40), Some(240)}
          [] OTHER -> {DefaultRecording[f]}
  IN  WithGenreFirst(Vary(DefaultRecording, focus, draws))

DefaultRelease ==
  [upc |-> UpcForIndex(0), title |-> 1, title_aliases |-> <<>>, artist |-> DefaultParty,
   featuring |-> <<>>, tracks |-> << [number |-> 1, recording |-> ByMidds(0)] >>,
   producers |-> <<>>, release_date |-> [month |-> 1, day |-> 1], distributor_name |-> 1,
   cover_contributors |-> <<>>, offchain_extension |-> None]

\* ReleaseBuilder::build: tracks are numbered in their order.
Numbered(recordings) ==
  [i \in DOMAIN recordings |-> [number |-> i, recording |-> recordings[i]]]

RandomTracks ==
  UNION {{Numbered([i \in 1..n |-> IF i \in coded THEN ByCode(IsrcForIndex(i - 1)) ELSE ByMidds(i - 1)]) :
            coded \in SUBSET (1..n)} : n \in 1..ListMax}

RandomRelease(focus) ==
  LET draws(f) ==
        CASE f = "title" -> Texts
          [] f = "artist" -> RandomPartyId
          [] f = "featuring" -> ListsOf(RandomPartyId, 0)
          [] f = "tracks" -> RandomTracks
          [] f = "producers" -> ListsOf([isni : RandomIsni, catalog_number : Texts], 0)
          [] f = "release_date" -> [month : {1, 12}, day : {1, 28}]
          [] f = "cover_contributors" -> ListsOf(Texts, 0)
          [] OTHER -> {DefaultRelease[f]}
  IN  Vary(DefaultRelease, focus, draws)

RandomRecord(kind, focus) ==
  CASE kind = "MusicalWork" -> RandomWork(focus) [] kind = "Recording" -> RandomRecording(focus)
    [] kind = "Release" -> RandomRelease(focus)

\* with_iswc, with_isrc, with_upc.
WithIndex(kind, payload, index) == [payload EXCEPT ![IdField(kind)] = IdForIndex(kind, index)]

Distributions == {"real", "max", "mixed"}

\* payload_for_index.  gen_n is the "real" one.
PayloadsForIndex(kind, distribution, focus, index) ==
  LET size == IF distribution # "mixed" THEN distribution
              ELSE CASE index % 3 = 0 -> "min" [] index % 3 = 1 -> "real" [] OTHER -> "max"
      records == CASE size = "real" -> RandomRecord(kind, focus)
                   [] size = "min" -> {MinSize(kind)}
                   [] size = "max" -> {MaxSize(kind)}
  IN  {WithIndex(kind, r, index) : r \in records}

Batch(kind, focus) ==
  UNION {{Fixture(p, Ok, Some(i)) : p \in PayloadsForIndex(kind, d, focus, i)} :
           d \in Distributions, i \in FixtureIndices}
=============================================================================
