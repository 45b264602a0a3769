SPECIFICATION Spec
CONSTANT Texts <- MCTexts
INVARIANTS
  ParsedAsWritten
  ErrorReported
  GroupsBalanced
  LookupsTrue
