---------------------------- MODULE ClientInputs ----------------------------
(***************************************************************************)
(* What the callers of the builders and the users of the form type: small  *)
(* sets, given by the model.  The choices between kinds of input follow    *)
(* the input types of midds-validate/src/builder.rs and the selections of  *)
(* midds-cli/src/create/shared.rs.                                         *)
(***************************************************************************)
EXTENDS MiddsTypes

CONSTANTS
  RawCodes,         \* for each kind of identifier, the texts a caller passes for it
  SampleCode,       \* for each kind of identifier, one of those that the parser accepts
  RawTexts,         \* the free texts a caller passes, as [size, trimmed]
  CreatorInputs,    \* the creators a caller passes, as [roles, ipi, isni]
  PerformerInputs,  \* the performers a caller passes, as [kind, raw, instruments]
  ProducerInputs,   \* the producers of a release, as [isni, catalog]
  Parsed,           \* what the parser of a kind makes of each of its texts
  HashSizes,        \* the sizes of off-chain hashes a caller passes
  SourceLists,      \* the source works of a work type a caller passes, already typed
  Years, Bpms, Dates, TrackNumbers, MiddsIds

\* Each text is parsed once: a model takes this table for Parsed.
ParsedCodes == [k \in IdKinds |-> [raw \in RawCodes[k] |-> Parse(k, raw)]]

ASSUME InputsAssumption ==
  /\ Parsed = ParsedCodes
  /\ \A k \in IdKinds : RawCodes[k] \subseteq Codes /\ SampleCode[k] \in RawCodes[k]
  /\ \A t \in RawTexts : t.size \in Nat /\ t.trimmed \in 0..t.size
  /\ \A c \in CreatorInputs :
       c.ipi \in Options(RawCodes["ipi"]) /\ c.isni \in Options(RawCodes["isni"])
  /\ \A p \in PerformerInputs : p.kind \in PerformerKinds /\ p.raw \in RawCodes[p.kind]
  /\ \A p \in ProducerInputs : p.isni \in RawCodes["isni"] /\ p.catalog.trimmed \in Nat
  /\ SourceLists \subseteq Seq(Codes)

SampleText == [size |-> 1, trimmed |-> 1]

PartyInputs == UNION {{[kind |-> k, raw |-> r] : r \in RawCodes[k]} : k \in {"ipi", "isni"}}
References(kind) == {ByMidds(id) : id \in MiddsIds} \cup {ByCode(r) : r \in RawCodes[kind]}
TrackInputs == [number : Options(TrackNumbers), recording : References("isrc")]
WorkTypes ==
  {Original} \cup {WorkType("Medley", s) : s \in SourceLists}
             \cup {WorkType("Adaptation", <<s[1]>>) : s \in SourceLists \ {<<>>}}
PlacesInputs == [recording : Options(RawTexts), mixing : {None}, mastering : Options(RawTexts)]
=============================================================================
