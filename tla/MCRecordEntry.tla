--------------------------- MODULE MCRecordEntry ---------------------------
\* Instances of RecordEntry: the texts, numbers and slips of the sessions.
EXTENDS RecordEntry

MCSampleCode ==
  [iswc |-> <<29, 0, 3, 4, 5, 2, 4, 6, 8, 0, 2>>,
   isni |-> <<0, 0, 0, 0, 0, 0, 0, 1, 2, 1, 0, 3, 2, 6, 8, 3>>,
   ipi |-> <<0, 0, 0, 5, 2, 2, 1, 0, 0, 4, 0>>,
   ipn |-> <<0, 0, 0, 1, 2, 3, 4, 5, 6, 7, 8>>,
   isrc |-> <<30, 28, 27, 12, 1, 7, 6, 0, 7, 8, 3, 9>>,
   upc |-> <<4, 0, 0, 6, 3, 8, 1, 3, 3, 3, 9, 3, 1>>]

\* Each with its canonical text, another way to write another code, and a bad one.
MCRawCodes ==
  [iswc |-> {MCSampleCode.iswc,
             <<55, 62, 0, 0, 0, 63, 0, 0, 0, 63, 0, 0, 1, 62, 9, 64>>,
             <<29, 0, 3, 4>>},
   isni |-> {MCSampleCode.isni,
             <<0, 0, 0, 0, 64, 0, 0, 0, 1, 62, 2, 1, 4, 4, 64, 8, 9, 7, 59>>,
             <<33, 0, 0, 0>>},
   ipi |-> {MCSampleCode.ipi, <<44, 62, 5, 2, 1>>, <<1, 2, 3, 4, 5, 6, 7, 8, 9>>, <<33>>},
   ipn |-> {MCSampleCode.ipn, <<7>>, <<18, 62, 7>>},
   isrc |-> {MCSampleCode.isrc, <<56, 54, 62, 27, 12, 1, 62, 7, 6, 62, 0, 7, 8, 4, 0>>, <<30, 1>>},
   upc |-> {MCSampleCode.upc, <<0, 62, 3, 6, 0, 0, 0, 64, 2, 9, 1, 4, 5, 62, 2>>, <<1, 2>>}]

MCRawTexts == {[size |-> 1, trimmed |-> 1], [size |-> 2, trimmed |-> 0],
               [size |-> 4, trimmed |-> 3], [size |-> 5, trimmed |-> 4]}

\* Each way an entry goes wrong, next to entries that are right.
MCCreatorInputs ==
  LET creator(roles, ipi, isni) == [roles |-> roles, ipi |-> ipi, isni |-> isni]
      good == Some(MCSampleCode.ipi)
      named == Some(MCSampleCode.isni)
      bad == Some(<<33>>)
      wrong == Some(<<33, 0, 0, 0>>)
  IN  {creator({"Composer"}, good, None), creator({"Author"}, good, named),
       creator({}, None, named), creator({"Author"}, None, None),
       creator({"Composer"}, bad, wrong), creator({}, good, wrong)}

MCPerformerInputs ==
  {[kind |-> k, raw |-> MCSampleCode[k], instruments |-> <<>>] : k \in PerformerKinds}
    \cup {[kind |-> "isni", raw |-> <<33, 0, 0, 0>>, instruments |-> <<>>]}

MCProducerInputs ==
  [isni : {MCSampleCode.isni, <<33, 0, 0, 0>>},
   catalog : {[size |-> 4, trimmed |-> 3], [size |-> 2, trimmed |-> 0]}]

\* Every field on its own, and the fields a rule compares.
MCFocuses ==
  {{f} : f \in UNION {DOMAIN Empty(k) : k \in MiddsKinds} \cup {"classical_info"}}
    \cup {{"iswc", "work_type"}, {"iswc", "samples"}, {"genre", "sub_genre"},
          {"instrumental", "explicit_lyrics"}, {"title", "offchain_extension"}}

MCDates == {[month |-> 1, day |-> 31], [month |-> 13, day |-> 1], [month |-> 2, day |-> 0]}

MCSourceLists ==
  LET other == ParseIswc(<<29, 0, 0, 0, 0, 0, 0, 0, 0, 1, 9>>)[1]
  IN  {<<>>, <<other>>, <<other, other>>, <<other, MCSampleCode.iswc>>, << <<29, 0, 3, 4>>, other>>}
=============================================================================
